---- MODULE Spec2Model ----
(***************************************************************************)
(* LocalForge: the agent execution loop (backend/agent/loop.py) and the    *)
(* two provider adapters (backend/models/anthropic.py, openai_compat.py).  *)
(*                                                                         *)
(* Strings that the code builds with f-strings or "+=" are sequences of    *)
(* their parts: "Error: unknown tool 'x'" is <<"Error: unknown tool '",    *)
(* "x", "'">>, and the text accumulated from deltas is the sequence of the *)
(* non-empty deltas.                                                       *)
(***************************************************************************)
EXTENDS Integers, Sequences, FiniteSets, TLC

\* ------------------------------------------------------------------ bounds
\* largest cfg.agent.max_iterations a run is started with
MaxIterations == 2
\* most events the adapter yields to run_agent over one run
MaxAdapterEvents == 3

\* ------------------------------------------------------------------ data
\* JSON values json.loads can hand to the loop as a tool input: an object
\* (with its "content" member absent, a string, or a number) or a non-object.
JObject(c) == [kind |-> "object", content |-> c]
JNumber == [kind |-> "number", content |-> "absent"]
NoInput == [kind |-> "none", content |-> "absent"]
\* the tool calls (name, input) the upstream model asks for in this model
UpstreamToolCalls ==
    { <<"list_directory", JObject("absent")>>,
      <<"execute_command", JObject("absent")>>,
      <<"execute_command", JNumber>>,
      <<"frobnicate", JObject("absent")>> }
\* text payloads
Texts == {"hi"}
\* stop reasons of a done event: an ordinary end, and the intent to call tools
StopReasons == {"stop", "tool_calls"}
\* what a tool's run can do
ToolOutcomes == {"returns", "PermissionError", "Exception"}

FILESYSTEM_TOOLS == {"read_file", "write_file", "list_directory", "search_files", "delete_file"}
TERMINAL_TOOLS == {"execute_command"}
WEB_SEARCH_TOOLS == {"web_search"}

\* the configurations get_config() returns in this model
Configs ==
    { [filesystem_enabled |-> TRUE, terminal_enabled |-> t[1], web_search_enabled |-> TRUE,
       terminal_require_confirmation |-> t[2],
       require_confirmation_for |-> {"write_file", "delete_file"},
       max_iterations |-> n] :
      t \in {<<TRUE, TRUE>>, <<TRUE, FALSE>>, <<FALSE, TRUE>>}, n \in 0..MaxIterations }

\* StreamEvent(type, data); n is the data of an iteration event, and for every
\* other event the iteration it was emitted in; k is the position of the tool
\* call in the iteration's tool_calls list for the events of a tool call.
\* Tool-call ids are numbers, 0 where an event or a message has none.
Ev(type, n, k, id, name, input, val) ==
    [type |-> type, n |-> n, k |-> k, id |-> id, name |-> name, input |-> input, val |-> val]

\* the events an adapter can yield (models/base.py, stream_chat docstring)
\* The upstream gives the j-th tool call of a run the id j.
AdapterEvents(n, k, j) ==
    { Ev("text_delta", n, 0, 0, "", NoInput, <<t>>) : t \in Texts }
    \cup { Ev("done", n, 0, 0, "", NoInput, <<s>>) : s \in StopReasons }
    \cup { Ev("error", n, 0, 0, "", NoInput, <<"upstream failure">>) }
    \cup { Ev("tool_call", n, k, j, c[1], c[2], <<>>) : c \in UpstreamToolCalls }

\* a message of the history
Msg(role, shape, content, key, id) ==
    [role |-> role, shape |-> shape, content |-> content, key |-> key, id |-> id]

\* the history the caller passes in
InitialMessages == << Msg("user", "text", <<"list files in /tmp">>, "", 0) >>

VARIABLES
    cfg,               \* the configuration get_config() returns
    is_anthropic,      \* loop.py:90
    messages,          \* the caller's list
    working_messages,  \* loop.py:94
    iteration,         \* loop.py:97, the loop variable
    tool_calls,        \* loop.py:100
    assistant_text,    \* loop.py:101
    stop_reason,       \* loop.py:102
    tc_i,              \* position of the for loop of loop.py:141 in tool_calls
    pc,                \* where the generator is suspended
    events,            \* every event run_agent has yielded, in order
    stream,            \* the events the adapter has yielded in the open stream
    ad_flush,          \* delta-chunk adapter: inside the flush of a finish chunk
    ad_done,           \* delta-chunk adapter: emitted_done
    adapter_calls,     \* number of adapter.stream_chat calls so far
    exec_log,          \* starts and ends of tool.run, in order
    hist_at_iter,      \* working_messages when the current iteration started
    result,            \* loop.py:182-189, the result of the tool call in hand
    term,              \* how the run ended
    \* one call of AnthropicAdapter.stream_chat
    a_pc,                     \* where the call is
    current_tool_id,          \* anthropic.py:45
    current_tool_name,        \* anthropic.py:46
    current_tool_input_json,  \* anthropic.py:47
    a_read,                   \* number of upstream events read
    a_out,                    \* the events the call has yielded, in order
    a_fragments,              \* the partial_json fragments read since the last tool_use block started
    \* one call of OpenAICompatAdapter.stream_chat
    o_pc,                     \* where the call is
    kwargs_tools,             \* "tools" in kwargs, openai_compat.py:133-134, 145
    requests,                 \* the client.chat.completions.create calls, in order
    tool_calls_acc,           \* openai_compat.py:137, in insertion order
    emitted_done,             \* openai_compat.py:138
    o_read,                   \* number of chunks read
    o_out,                    \* the events the call has yielded, in order
    o_finish_seen,            \* a chunk read so far carried a finish_reason
    \* one call of _requires_confirmation and of _format_confirmation_message
    g_pc,                     \* where the two calls are
    g_cfg,                    \* the configuration get_config() returns
    g_tool_name,              \* the argument tool_name
    g_tool_input,             \* the argument tool_input
    g_required,               \* what _requires_confirmation returned
    g_message,                \* what _format_confirmation_message returned
    \* a second run of run_agent, for another conversation, on the same event loop
    active,                   \* the run that is executing: 1 or 2
    other,                    \* the frame of the run that is suspended
    \* one call of api_key_middleware
    h_pc,                     \* where the call is
    env_API_KEY,              \* os.getenv("API_KEY", "")
    request_path,             \* request.url.path
    auth_header,              \* auth.py:39
    x_api_key,                \* auth.py:40
    provided,                 \* auth.py:42-47
    response,                 \* what the middleware returned
    \* one building of the outbound messages of OpenAICompatAdapter.stream_chat
    pj_pc,                    \* where the call is
    pj_messages,              \* the messages argument
    openai_messages_out,      \* openai_messages, openai_compat.py:115-126
    \* the Telegram transport
    update_queue,             \* the updates received and not yet dispatched
    arrived,                  \* how many updates were received
    _chat_conv_map,           \* bot.py:39
    _pending_confirmations,   \* bot.py:40
    db_conversations,         \* the conversations create_conversation made, in order
    db_messages,              \* the messages add_message stored, in order
    t_pc,                     \* where the handler that is dispatched is
    t_update,                 \* the update it handles
    t_conv_id,                \* conv_id of _handle_message
    t_full_text,              \* full_text of _handle_message
    t_tool_use_id,            \* tool_use_id of _handle_message
    t_seen,                   \* how many events of run_agent the handler has taken
    t_log,                    \* what the handlers did, in order
    \* one chat request of the HTTP transport
    c_pc,                     \* where send_message and event_stream are
    c_seen,                   \* how many events of run_agent event_stream has taken
    is_first_message,         \* chat.py:110
    c_full_text,              \* full_text of event_stream
    title_generated,          \* chat.py:125
    c_trace                   \* the frames sent and the messages stored, in order

loopVars == << cfg, is_anthropic, messages, working_messages, iteration, tool_calls,
               assistant_text, stop_reason, tc_i, pc, events, stream, ad_flush, ad_done,
               adapter_calls, exec_log, hist_at_iter, result, term >>
anthropicVars == << a_pc, current_tool_id, current_tool_name, current_tool_input_json,
                    a_read, a_out, a_fragments >>
openaiVars == << o_pc, kwargs_tools, requests, tool_calls_acc, emitted_done, o_read, o_out,
                 o_finish_seen >>
gateVars == << g_pc, g_cfg, g_tool_name, g_tool_input, g_required, g_message >>
runsVars == << active, other >>
authVars == << h_pc, env_API_KEY, request_path, auth_header, x_api_key, provided, response >>
projVars == << pj_pc, pj_messages, openai_messages_out >>
botVars == << update_queue, arrived, _chat_conv_map, _pending_confirmations, db_conversations,
              db_messages, t_pc, t_update, t_conv_id, t_full_text, t_tool_use_id, t_seen, t_log >>
chatVars == << c_pc, c_seen, is_first_message, c_full_text, title_generated, c_trace >>
vars == << loopVars, anthropicVars, openaiVars, gateVars, runsVars, authVars, projVars, botVars,
           chatVars >>

\* ------------------------------------------------------------------ pure functions
\* loop.py:16-33
get_enabled_tools(c) ==
    (IF c.filesystem_enabled THEN FILESYSTEM_TOOLS ELSE {})
    \cup (IF c.terminal_enabled THEN TERMINAL_TOOLS ELSE {})
    \cup (IF c.web_search_enabled THEN WEB_SEARCH_TOOLS ELSE {})

\* loop.py:87-88 (no extra_tools): the names tool_map has a tool for
tool_map(c) == get_enabled_tools(c)

\* loop.py:44-55
requires_confirmation(c, tool_name, tool_input) ==
    IF tool_name = "execute_command" THEN c.terminal_require_confirmation
    ELSE IF tool_name = "write_file" THEN "write_file" \in c.require_confirmation_for
    ELSE IF tool_name = "delete_file" THEN "delete_file" \in c.require_confirmation_for
    ELSE FALSE

\* loop.py:58-75. tool_input.get raises AttributeError on a value that is no
\* dict, and [:100] raises TypeError on a "content" that is a number.
format_confirmation_message(tool_name, tool_input) ==
    IF tool_name = "execute_command" THEN
        IF tool_input.kind # "object" THEN [raises |-> TRUE, msg |-> <<>>]
        ELSE [raises |-> FALSE, msg |-> <<"Execute command:", "in">>]
    ELSE IF tool_name = "write_file" THEN
        IF tool_input.kind # "object" \/ tool_input.content = "number"
        THEN [raises |-> TRUE, msg |-> <<>>]
        ELSE [raises |-> FALSE, msg |-> <<"Write to file:", "Mode:", "Preview:">>]
    ELSE IF tool_name = "delete_file" THEN
        IF tool_input.kind # "object" THEN [raises |-> TRUE, msg |-> <<>>]
        ELSE [raises |-> FALSE, msg |-> <<"Delete file:", "This action cannot be undone!">>]
    ELSE [raises |-> FALSE, msg |-> <<"Run ", tool_name, " with: ">>]

\* "+=" of loop.py:106 on strings: adding the empty string changes nothing
StrAdd(text, t) == IF t = "" THEN text ELSE Append(text, t)

\* loop.py:123-132, the content blocks of the assistant turn
ContentBlocks(text, tcs) ==
    (IF text # <<>> THEN << [type |-> "text", text |-> text, id |-> 0, name |-> "", input |-> NoInput] >>
     ELSE <<>>)
    \o [i \in 1..Len(tcs) |->
          [type |-> "tool_use", text |-> <<>>, id |-> tcs[i].id, name |-> tcs[i].name,
           input |-> tcs[i].input]]

\* loop.py:121-135, the assistant turn appended after the stream
AssistantTurn(anth, text, tcs) ==
    IF anth THEN Msg("assistant", "blocks", ContentBlocks(text, tcs), "", 0)
    ELSE Msg("assistant", "text", text, "", 0)

\* the tool message with the key tool_call_id for both providers
ToolMessage_OneKey(anth, tool_id, res) == Msg("tool", "text", res, "tool_call_id", tool_id)

\* loop.py:196-207, the tool message appended after the tool_result event
ToolMessage(anth, tool_id, res) ==
    IF anth THEN Msg("tool", "text", res, "tool_use_id", tool_id)
    ELSE Msg("tool", "text", res, "tool_call_id", tool_id)

\* the provisional tool message without the id of the call
WaitingMessage_NoId(tool_id) ==
    Msg("tool", "text", <<"Waiting for user confirmation...">>, "tool_use_id", 0)

\* loop.py:171-175, the provisional tool message of a call that needs confirmation
WaitingMessage(tool_id) ==
    Msg("tool", "text", <<"Waiting for user confirmation...">>, "tool_use_id", tool_id)

\* the result without the name of the tool
UnknownToolResult_NoName(tool_name) == <<"Error: unknown tool">>

\* loop.py:182
UnknownToolResult(tool_name) == <<"Error: unknown tool '", tool_name, "'">>

\* the result with one except clause for every exception
ToolRunResult_OneClause(o) == IF o = "returns" THEN <<"output">> ELSE <<"Tool error: ", "e">>

\* loop.py:185-189, the result of a tool.run that ended with outcome o
ToolRunResult(o) ==
    IF o = "PermissionError" THEN <<"Permission denied: ", "e">>
    ELSE IF o = "Exception" THEN <<"Tool error: ", "e">>
    ELSE <<"output">>

\* the tool_result event without the id of the call
ToolResultEvent_NoId(n, k, tc, res) == Ev("tool_result", n, k, 0, tc.name, NoInput, res)

\* loop.py:191-194
ToolResultEvent(n, k, tc, res) == Ev("tool_result", n, k, tc.id, tc.name, NoInput, res)

\* ------------------------------------------------------------------ run_agent
\* no call of AnthropicAdapter.stream_chat has been made
AnthropicIdle ==
    /\ a_pc = "idle"
    /\ current_tool_id = 0
    /\ current_tool_name = "None"
    /\ current_tool_input_json = <<>>
    /\ a_read = 0
    /\ a_out = <<>>
    /\ a_fragments = <<>>

\* no call of OpenAICompatAdapter.stream_chat has been made
OpenAIIdle ==
    /\ o_pc = "idle"
    /\ kwargs_tools = FALSE
    /\ requests = <<>>
    /\ tool_calls_acc = <<>>
    /\ emitted_done = FALSE
    /\ o_read = 0
    /\ o_out = <<>>
    /\ o_finish_seen = FALSE

\* neither function of the confirmation gate has been called on its own
GateIdle ==
    /\ g_pc = "idle"
    /\ g_cfg = [filesystem_enabled |-> TRUE, terminal_enabled |-> TRUE, web_search_enabled |-> TRUE,
                terminal_require_confirmation |-> TRUE,
                require_confirmation_for |-> {"write_file", "delete_file"},
                max_iterations |-> MaxIterations]
    /\ g_tool_name = ""
    /\ g_tool_input = NoInput
    /\ g_required = FALSE
    /\ g_message = <<>>

\* the frame of a run_agent call that has not been started
NewFrame(c, anth, msgs) ==
    [cfg |-> c, is_anthropic |-> anth, messages |-> msgs, working_messages |-> <<>>,
     iteration |-> 0, tool_calls |-> <<>>, assistant_text |-> <<>>, stop_reason |-> "None",
     tc_i |-> 0, pc |-> "start", events |-> <<>>, stream |-> <<>>, ad_flush |-> FALSE,
     ad_done |-> FALSE, adapter_calls |-> 0, exec_log |-> <<>>, hist_at_iter |-> <<>>,
     result |-> <<>>, term |-> "none"]

\* the history of the second conversation
OtherMessages == << Msg("user", "text", <<"what time is it">>, "", 0) >>

\* there is one run only: no second run is ever started
OneRun ==
    /\ active = 1
    /\ other = NewFrame([filesystem_enabled |-> TRUE, terminal_enabled |-> TRUE,
                         web_search_enabled |-> TRUE, terminal_require_confirmation |-> TRUE,
                         require_confirmation_for |-> {"write_file", "delete_file"},
                         max_iterations |-> MaxIterations], FALSE, OtherMessages)

\* api_key_middleware has not been called
AuthIdle ==
    /\ h_pc = "idle"
    /\ env_API_KEY = ""
    /\ request_path = ""
    /\ auth_header = <<>>
    /\ x_api_key = ""
    /\ provided = ""
    /\ response = "none"

\* the outbound messages are not being built
ProjIdle ==
    /\ pj_pc = "idle"
    /\ pj_messages = <<>>
    /\ openai_messages_out = <<>>

\* the Telegram bot has not been started
BotIdle ==
    /\ update_queue = <<>>
    /\ arrived = 0
    /\ _chat_conv_map = 0
    /\ _pending_confirmations = {}
    /\ db_conversations = 0
    /\ db_messages = <<>>
    /\ t_pc = "off"
    /\ t_update = [type |-> "none", auth |-> FALSE, action |-> "", tool_use_id |-> <<0, 0>>]
    /\ t_conv_id = 0
    /\ t_full_text = <<>>
    /\ t_tool_use_id = <<0, 0>>
    /\ t_seen = 0
    /\ t_log = <<>>

\* there is no chat request
ChatIdle ==
    /\ c_pc = "off"
    /\ c_seen = 0
    /\ is_first_message = FALSE
    /\ c_full_text = <<>>
    /\ title_generated = FALSE
    /\ c_trace = <<>>

\* no transport is in use
TransportsIdle == ProjIdle /\ BotIdle /\ ChatIdle

Init ==
    /\ AnthropicIdle
    /\ OpenAIIdle
    /\ GateIdle
    /\ OneRun
    /\ AuthIdle
    /\ TransportsIdle
    /\ cfg \in Configs
    /\ is_anthropic \in BOOLEAN
    /\ messages = InitialMessages
    /\ working_messages = <<>>
    /\ iteration = 0
    /\ tool_calls = <<>>
    /\ assistant_text = <<>>
    /\ stop_reason = "None"
    /\ tc_i = 0
    /\ pc = "start"
    /\ events = <<>>
    /\ stream = <<>>
    /\ ad_flush = FALSE
    /\ ad_done = FALSE
    /\ adapter_calls = 0
    /\ exec_log = <<>>
    /\ hist_at_iter = <<>>
    /\ result = <<>>
    /\ term = "none"

\* the iteration event carries the loop variable itself
LoopHead_ZeroBased(it) ==
    IF it < cfg.max_iterations
    THEN /\ events' = Append(events, Ev("iteration", it, 0, 0, "", NoInput, <<>>))
         /\ pc' = "y_iteration"
    ELSE /\ events' = Append(events, Ev("error", it, 0, 0, "", NoInput,
                                        <<"Max iterations (", ToString(cfg.max_iterations), ") reached">>))
         /\ pc' = "y_ceiling"

\* loop.py:97-98 and 209: the head of the for loop, reached with loop variable it
LoopHead(it) ==
    IF it < cfg.max_iterations
    THEN /\ events' = Append(events, Ev("iteration", it + 1, 0, 0, "", NoInput, <<>>))
         /\ pc' = "y_iteration"
    ELSE /\ events' = Append(events, Ev("error", it, 0, 0, "", NoInput,
                                        <<"Max iterations (", ToString(cfg.max_iterations), ") reached">>))
         /\ pc' = "y_ceiling"

\* tool.run started and not awaited: the loop goes on while the tool runs
ExecuteTool_NoAwait(k) ==
    /\ result' = <<"output">>
    /\ events' = Append(events, ToolResultEvent(iteration + 1, k, tool_calls[k], <<"output">>))
    /\ pc' = "y_result"
    /\ exec_log' = Append(exec_log, [op |-> "start", n |-> iteration + 1, k |-> k])

\* loop.py:181-194: execute tool_calls[k], up to the await of tool.run or the
\* yield of the tool_result. tool.run(**tool_input) raises TypeError inside the
\* try when tool_input is no mapping.
ExecuteTool(k) ==
    LET tc == tool_calls[k] IN
    IF tc.name \notin tool_map(cfg) THEN
        /\ result' = UnknownToolResult(tc.name)
        /\ events' = Append(events, ToolResultEvent(iteration + 1, k, tc, UnknownToolResult(tc.name)))
        /\ pc' = "y_result"
        /\ exec_log' = exec_log
    ELSE IF tc.input.kind # "object" THEN
        /\ result' = ToolRunResult("Exception")
        /\ events' = Append(events, ToolResultEvent(iteration + 1, k, tc, ToolRunResult("Exception")))
        /\ pc' = "y_result"
        /\ exec_log' = exec_log
    ELSE
        /\ result' = result
        /\ events' = events
        /\ pc' = "a_tool"
        /\ exec_log' = Append(exec_log, [op |-> "start", n |-> iteration + 1, k |-> k])

\* loop.py:141-160, then 181-194: the body of the for loop for tool_calls[k],
\* up to its first suspension
ProcessToolCall(k) ==
    LET tc == tool_calls[k] IN
    /\ tc_i' = k
    /\ IF tc.name \in tool_map(cfg) /\ requires_confirmation(cfg, tc.name, tc.input) THEN
          IF format_confirmation_message(tc.name, tc.input).raises THEN
              /\ pc' = "raised"
              /\ term' = "exception"
              /\ UNCHANGED << events, exec_log, result >>
          ELSE
              /\ events' = Append(events, Ev("tool_confirmation_needed", iteration + 1, k, tc.id,
                                             tc.name, tc.input,
                                             format_confirmation_message(tc.name, tc.input).msg))
              /\ pc' = "y_confirm"
              /\ UNCHANGED << exec_log, result, term >>
       ELSE
          /\ ExecuteTool(k)
          /\ term' = term

\* loop.py:86-98: the generator is started
Begin ==
    /\ pc = "start"
    /\ working_messages' = messages
    /\ iteration' = 0
    /\ LoopHead(0)
    /\ UNCHANGED << cfg, is_anthropic, messages, tool_calls, assistant_text, stop_reason, tc_i,
                    stream, ad_flush, ad_done, adapter_calls, exec_log, hist_at_iter, result, term >>
    /\ UNCHANGED << anthropicVars, openaiVars, gateVars, runsVars, authVars,
                    projVars, botVars, chatVars >>

\* loop.py:100-104: resumed after the iteration event; the adapter is called
OpenStream ==
    /\ pc = "y_iteration"
    /\ tool_calls' = <<>>
    /\ assistant_text' = <<>>
    /\ stop_reason' = "None"
    /\ adapter_calls' = adapter_calls + 1
    /\ stream' = <<>>
    /\ ad_flush' = FALSE
    /\ ad_done' = FALSE
    /\ hist_at_iter' = working_messages
    /\ pc' = "s_stream"
    /\ UNCHANGED << cfg, is_anthropic, messages, working_messages, iteration, tc_i, events,
                    exec_log, result, term >>
    /\ UNCHANGED << anthropicVars, openaiVars, gateVars, runsVars, authVars,
                    projVars, botVars, chatVars >>

\* What the adapter in use can yield next, given what it has yielded so far.
\* The content-block adapter (anthropic.py:49-94) yields text_delta, tool_call
\* and done events in any order and number, and an error at any point. The
\* delta-chunk adapter (openai_compat.py:150-206) yields tool_call events only
\* in the flush of a finish chunk, which ends with a done event.
AdapterCanYield(e) ==
    \/ is_anthropic
    \/ e.type \in {"tool_call", "done"}
    \/ ~ad_flush

\* Whether the adapter's generator can be exhausted here. The delta-chunk
\* adapter yields a synthetic done before it ends when emitted_done is false
\* (openai_compat.py:202-203).
AdapterCanEnd ==
    \/ is_anthropic
    \/ ad_done /\ ~ad_flush

\* the number of events the adapter has yielded in this run
AdapterEventCount ==
    Cardinality({ i \in 1..Len(events) :
                    \/ events[i].type \in {"text_delta", "tool_call", "done"}
                    \/ events[i].type = "error" /\ events[i].val = <<"upstream failure">> })

\* the number of tool calls the adapter has yielded in this run
ToolCallCount == Cardinality({ i \in 1..Len(events) : events[i].type = "tool_call" })

\* the error branch without its return
AfterForwarding_NoReturn(e) == "y_fwd"

\* loop.py:105-119: where the generator is suspended after it forwarded e; the
\* error branch returns when it is resumed
AfterForwarding(e) == IF e.type = "error" THEN "y_error" ELSE "y_fwd"

\* the loop takes the adapter's event and yields nothing for a done event
AdapterYields_DropsDone(e) ==
    /\ pc = "s_stream"
    /\ AdapterCanYield(e)
    /\ \/ AdapterEventCount < MaxAdapterEvents
       \/ ~is_anthropic /\ e.type = "done" /\ ~AdapterCanEnd
    /\ Len(stream) < MaxAdapterEvents
    /\ stream' = Append(stream, e)
    /\ ad_flush' = (e.type = "tool_call")
    /\ ad_done' = (ad_done \/ e.type = "done")
    /\ events' = IF e.type = "done" THEN events ELSE Append(events, e)
    /\ assistant_text' = IF e.type = "text_delta" THEN StrAdd(assistant_text, e.val[1])
                         ELSE assistant_text
    /\ tool_calls' = IF e.type = "tool_call"
                     THEN Append(tool_calls, [id |-> e.id, name |-> e.name, input |-> e.input])
                     ELSE tool_calls
    /\ stop_reason' = IF e.type = "done" THEN e.val[1] ELSE stop_reason
    /\ pc' = AfterForwarding(e)
    /\ UNCHANGED << cfg, is_anthropic, messages, working_messages, iteration, tc_i,
                    adapter_calls, exec_log, hist_at_iter, result, term >>
    /\ UNCHANGED << anthropicVars, openaiVars, gateVars, runsVars, authVars,
                    projVars, botVars, chatVars >>

\* loop.py:104-118: the adapter yields e, and the loop handles it up to its yield
AdapterYields(e) ==
    /\ pc = "s_stream"
    /\ AdapterCanYield(e)
    /\ \/ AdapterEventCount < MaxAdapterEvents
       \/ ~is_anthropic /\ e.type = "done" /\ ~AdapterCanEnd
    /\ stream' = Append(stream, e)
    /\ ad_flush' = (e.type = "tool_call")
    /\ ad_done' = (ad_done \/ e.type = "done")
    /\ events' = Append(events, e)
    /\ assistant_text' = IF e.type = "text_delta" THEN StrAdd(assistant_text, e.val[1])
                         ELSE assistant_text
    /\ tool_calls' = IF e.type = "tool_call"
                     THEN Append(tool_calls, [id |-> e.id, name |-> e.name, input |-> e.input])
                     ELSE tool_calls
    /\ stop_reason' = IF e.type = "done" THEN e.val[1] ELSE stop_reason
    /\ pc' = AfterForwarding(e)
    /\ UNCHANGED << cfg, is_anthropic, messages, working_messages, iteration, tc_i,
                    adapter_calls, exec_log, hist_at_iter, result, term >>
    /\ UNCHANGED << anthropicVars, openaiVars, gateVars, runsVars, authVars,
                    projVars, botVars, chatVars >>

\* loop.py:107, 111, 115: resumed after a forwarded event; the next one is awaited
ResumeForwarded ==
    /\ pc = "y_fwd"
    /\ pc' = "s_stream"
    /\ UNCHANGED << cfg, is_anthropic, messages, working_messages, iteration, tool_calls,
                    assistant_text, stop_reason, tc_i, events, stream, ad_flush, ad_done,
                    adapter_calls, exec_log, hist_at_iter, result, term >>
    /\ UNCHANGED << anthropicVars, openaiVars, gateVars, runsVars, authVars,
                    projVars, botVars, chatVars >>

\* loop.py:118-119: resumed after the forwarded error; return
ResumeError ==
    /\ pc = "y_error"
    /\ pc' = "returned"
    /\ term' = "adapter_error"
    /\ UNCHANGED << cfg, is_anthropic, messages, working_messages, iteration, tool_calls,
                    assistant_text, stop_reason, tc_i, events, stream, ad_flush, ad_done,
                    adapter_calls, exec_log, hist_at_iter, result >>
    /\ UNCHANGED << anthropicVars, openaiVars, gateVars, runsVars, authVars,
                    projVars, botVars, chatVars >>

\* the working history is the caller's list itself, not a copy of it: the
\* append of the assistant turn is made to the caller's list too
StreamEnds_Aliased ==
    /\ pc = "s_stream"
    /\ AdapterCanEnd
    /\ working_messages' = Append(working_messages,
                                  AssistantTurn(is_anthropic, assistant_text, tool_calls))
    /\ messages' = Append(messages, AssistantTurn(is_anthropic, assistant_text, tool_calls))
    /\ IF tool_calls = <<>>
       THEN /\ pc' = "returned"
            /\ term' = "normal"
            /\ UNCHANGED << tc_i, events, exec_log, result >>
       ELSE ProcessToolCall(1)
    /\ UNCHANGED << cfg, is_anthropic, iteration, tool_calls, assistant_text,
                    stop_reason, stream, ad_flush, ad_done, adapter_calls, hist_at_iter >>
    /\ UNCHANGED << anthropicVars, openaiVars, gateVars, runsVars, authVars,
                    projVars, botVars, chatVars >>

\* loop.py:121-141: the adapter's stream is exhausted
StreamEnds ==
    /\ pc = "s_stream"
    /\ AdapterCanEnd
    /\ working_messages' = Append(working_messages,
                                  AssistantTurn(is_anthropic, assistant_text, tool_calls))
    /\ IF tool_calls = <<>>
       THEN /\ pc' = "returned"
            /\ term' = "normal"
            /\ UNCHANGED << tc_i, events, exec_log, result >>
       ELSE ProcessToolCall(1)
    /\ UNCHANGED << cfg, is_anthropic, messages, iteration, tool_calls, assistant_text,
                    stop_reason, stream, ad_flush, ad_done, adapter_calls, hist_at_iter >>
    /\ UNCHANGED << anthropicVars, openaiVars, gateVars, runsVars, authVars,
                    projVars, botVars, chatVars >>

\* loop.py:161-169: resumed after tool_confirmation_needed; the provisional result
ResumeConfirm ==
    /\ pc = "y_confirm"
    /\ events' = Append(events, ToolResultEvent(iteration + 1, tc_i, tool_calls[tc_i],
                                                <<"Waiting for user confirmation...">>))
    /\ pc' = "y_waiting"
    /\ UNCHANGED << cfg, is_anthropic, messages, working_messages, iteration, tool_calls,
                    assistant_text, stop_reason, tc_i, stream, ad_flush, ad_done,
                    adapter_calls, exec_log, hist_at_iter, result, term >>
    /\ UNCHANGED << anthropicVars, openaiVars, gateVars, runsVars, authVars,
                    projVars, botVars, chatVars >>

\* loop.py:170-194: resumed after the provisional result; it is appended to the
\* history and the tool is executed
ResumeWaiting ==
    /\ pc = "y_waiting"
    /\ working_messages' = Append(working_messages, WaitingMessage(tool_calls[tc_i].id))
    /\ ExecuteTool(tc_i)
    /\ UNCHANGED << cfg, is_anthropic, messages, iteration, tool_calls, assistant_text,
                    stop_reason, tc_i, stream, ad_flush, ad_done, adapter_calls,
                    hist_at_iter, term >>
    /\ UNCHANGED << anthropicVars, openaiVars, gateVars, runsVars, authVars,
                    projVars, botVars, chatVars >>

\* loop.py:185-194: tool.run ends with outcome o; its result is yielded
ToolReturns(o) ==
    /\ pc = "a_tool"
    /\ exec_log' = Append(exec_log, [op |-> "end", n |-> iteration + 1, k |-> tc_i])
    /\ result' = ToolRunResult(o)
    /\ events' = Append(events, ToolResultEvent(iteration + 1, tc_i, tool_calls[tc_i],
                                                ToolRunResult(o)))
    /\ pc' = "y_result"
    /\ UNCHANGED << cfg, is_anthropic, messages, working_messages, iteration, tool_calls,
                    assistant_text, stop_reason, tc_i, stream, ad_flush, ad_done,
                    adapter_calls, hist_at_iter, term >>
    /\ UNCHANGED << anthropicVars, openaiVars, gateVars, runsVars, authVars,
                    projVars, botVars, chatVars >>

\* the next iteration begins after the first tool call of the turn
ResumeResult_EarlyNext ==
    /\ pc = "y_result"
    /\ working_messages' = Append(working_messages,
                                  ToolMessage(is_anthropic, tool_calls[tc_i].id, result))
    /\ iteration' = iteration + 1
    /\ LoopHead(iteration + 1)
    /\ UNCHANGED << tc_i, exec_log, result, term >>
    /\ UNCHANGED << cfg, is_anthropic, messages, tool_calls, assistant_text, stop_reason,
                    stream, ad_flush, ad_done, adapter_calls, hist_at_iter >>
    /\ UNCHANGED << anthropicVars, openaiVars, gateVars, runsVars, authVars,
                    projVars, botVars, chatVars >>

\* loop.py:196-207, then the next tool call (141) or the next iteration (97)
ResumeResult ==
    /\ pc = "y_result"
    /\ working_messages' = Append(working_messages,
                                  ToolMessage(is_anthropic, tool_calls[tc_i].id, result))
    /\ IF tc_i < Len(tool_calls)
       THEN /\ ProcessToolCall(tc_i + 1)
            /\ iteration' = iteration
       ELSE /\ iteration' = iteration + 1
            /\ LoopHead(iteration + 1)
            /\ UNCHANGED << tc_i, exec_log, result, term >>
    /\ UNCHANGED << cfg, is_anthropic, messages, tool_calls, assistant_text, stop_reason,
                    stream, ad_flush, ad_done, adapter_calls, hist_at_iter >>
    /\ UNCHANGED << anthropicVars, openaiVars, gateVars, runsVars, authVars,
                    projVars, botVars, chatVars >>

\* loop.py:209: resumed after the ceiling error; the generator ends
ResumeCeiling ==
    /\ pc = "y_ceiling"
    /\ pc' = "returned"
    /\ term' = "ceiling"
    /\ UNCHANGED << cfg, is_anthropic, messages, working_messages, iteration, tool_calls,
                    assistant_text, stop_reason, tc_i, events, stream, ad_flush, ad_done,
                    adapter_calls, exec_log, hist_at_iter, result >>
    /\ UNCHANGED << anthropicVars, openaiVars, gateVars, runsVars, authVars,
                    projVars, botVars, chatVars >>

Next ==
    \/ Begin
    \/ OpenStream
    \/ \E e \in AdapterEvents(iteration + 1, Len(tool_calls) + 1, ToolCallCount + 1) : AdapterYields(e)
    \/ ResumeForwarded
    \/ ResumeError
    \/ StreamEnds
    \/ ResumeConfirm
    \/ ResumeWaiting
    \/ \E o \in ToolOutcomes : ToolReturns(o)
    \/ ResumeResult
    \/ ResumeCeiling

Spec == Init /\ [][Next]_vars

\* ------------------------------------------------------------------ reading the run
Last(sq) == sq[Len(sq)]
EventsOfType(t) == { i \in 1..Len(events) : events[i].type = t }
IsAdapterError(e) == e.type = "error" /\ e.val = <<"upstream failure">>
IsCeilingError(e) ==
    e.type = "error" /\ e.val = <<"Max iterations (", ToString(cfg.max_iterations), ") reached">>
\* the generator has ended: by return, or by an exception that left run_agent
Ended == pc \in {"returned", "raised"}
\* the events of the adapter stream of iteration n that run_agent has emitted
StreamEventsOf(n) ==
    { i \in 1..Len(events) :
        events[i].n = n /\ events[i].type \in {"text_delta", "tool_call", "done", "error"}
        /\ ~IsCeilingError(events[i]) }
ToolCallsOf(n) == { i \in StreamEventsOf(n) : events[i].type = "tool_call" }
AdapterErrors == { i \in 1..Len(events) : IsAdapterError(events[i]) }
\* the iterations whose adapter stream has been opened
OpenedIterations == 1..adapter_calls

\* C1: with ceiling N, if every adapter stream ends without an error event and
\* carries a tool call, the finished run has emitted exactly the iteration
\* events 1..N, then exactly one error event, the ceiling error, and has called
\* the adapter N times; at no point are there more than N iteration events or
\* more than N adapter calls.
C1_CeilingAfterExactlyN ==
    /\ Cardinality(EventsOfType("iteration")) <= cfg.max_iterations
    /\ adapter_calls <= cfg.max_iterations
    /\ ( /\ Ended
         /\ AdapterErrors = {}
         /\ \A n \in OpenedIterations : ToolCallsOf(n) # {} )
       => /\ { events[i].n : i \in EventsOfType("iteration") } = 1..cfg.max_iterations
          /\ Cardinality(EventsOfType("iteration")) = cfg.max_iterations
          /\ adapter_calls = cfg.max_iterations
          /\ Cardinality(EventsOfType("error")) = 1
          /\ events # <<>> /\ IsCeilingError(Last(events))

\* C2: a finished run ended in exactly one of the three ways: a forwarded
\* adapter error as its last event, a return after an iteration without tool
\* calls, or the ceiling error as its last event.
C2_ExactlyOneEnding ==
    Ended =>
        LET byAdapterError == term = "adapter_error" /\ events # <<>> /\ IsAdapterError(Last(events))
            byNoToolCalls == term = "normal" /\ adapter_calls >= 1 /\ ToolCallsOf(adapter_calls) = {}
            byCeiling == term = "ceiling" /\ events # <<>> /\ IsCeilingError(Last(events))
        IN  Cardinality({ w \in {"a", "b", "c"} :
                            \/ w = "a" /\ byAdapterError
                            \/ w = "b" /\ byNoToolCalls
                            \/ w = "c" /\ byCeiling }) = 1

\* C3: once the stream of iteration k has yielded an error event, that event is
\* the last event of the run, the working history is the one iteration k
\* started with, no tool of iteration k has been started or answered, the
\* adapter has been called k times and no more, and the generator is at the
\* yield of the error or has returned.
C3_AdapterErrorEndsRun ==
    \A i \in AdapterErrors :
        /\ i = Len(events)
        /\ working_messages = hist_at_iter
        /\ \A j \in 1..Len(exec_log) : exec_log[j].n # events[i].n
        /\ \A j \in 1..Len(events) :
              events[j].type \in {"tool_result", "tool_confirmation_needed"} => events[j].n # events[i].n
        /\ adapter_calls = events[i].n
        /\ pc \in {"y_error", "returned"}
        /\ pc = "returned" => term = "adapter_error"

\* C3 witness: the run has returned on an adapter error of its second iteration
\* that came after a tool_call event of the same stream.
C3_Witness ==
    /\ pc = "returned"
    /\ \E i \in AdapterErrors : events[i].n = 2 /\ ToolCallsOf(2) # {}
    /\ Len(working_messages) > Len(messages)

\* the types of the events of the run that are of one of the types in ts, in order
TypesRestricted(ts) ==
    LET sel == SelectSeq(events, LAMBDA e : e.type \in ts)
    IN  [i \in 1..Len(sel) |-> sel[i].type]

\* C6: if the first adapter stream carries no tool_call and no error event, the
\* finished run has emitted exactly one iteration event and exactly one done
\* event, has run no tool, and has emitted no tool_result,
\* tool_confirmation_needed or error event.
C6_NoToolCallsOneDone ==
    ( /\ Ended
      /\ adapter_calls >= 1
      /\ ToolCallsOf(1) = {}
      /\ \A i \in AdapterErrors : events[i].n # 1 )
    => /\ Cardinality(EventsOfType("iteration")) = 1
       /\ Cardinality(EventsOfType("done")) = 1
       /\ exec_log = <<>>
       /\ EventsOfType("tool_result") = {}
       /\ EventsOfType("tool_confirmation_needed") = {}
       /\ EventsOfType("error") = {}

\* a tool call that names a tool of the run which needs no confirmation
UngatedKnown(e) ==
    /\ e.name \in tool_map(cfg)
    /\ ~requires_confirmation(cfg, e.name, e.input)

\* C7: if the first response is one tool call to an ungated known tool followed
\* by done, and the second response has no tool call (and no error), the
\* finished run's iteration, tool_call, done and tool_result events are
\* iteration(1), tool_call, done, tool_result, iteration(2), done in this
\* order, and the run has emitted no error event.
C7_OneToolRoundTrip ==
    ( /\ Ended
      /\ adapter_calls >= 2
      /\ TypesRestricted({"iteration", "tool_call", "done", "tool_result"})[1] = "iteration"
      /\ LET first == SelectSeq(events, LAMBDA e : e.n = 1 /\ e.type \in {"tool_call", "done", "error"})
         IN  /\ Len(first) = 2
             /\ first[1].type = "tool_call" /\ UngatedKnown(first[1])
             /\ first[2].type = "done"
      /\ ToolCallsOf(2) = {}
      /\ \A i \in AdapterErrors : events[i].n # 2 )
    => /\ TypesRestricted({"iteration", "tool_call", "done", "tool_result"})
            = <<"iteration", "tool_call", "done", "tool_result", "iteration", "done">>
       /\ EventsOfType("error") = {}

\* the ids of the tool_use blocks of message m of the working history
ToolUseIds(m) ==
    IF m.role = "assistant" /\ m.shape = "blocks"
    THEN { m.content[b].id : b \in { b \in 1..Len(m.content) : m.content[b].type = "tool_use" } }
    ELSE {}

\* the tool messages after position i of the working history that carry id
ToolMessagesFor(i, id) ==
    { j \in (i + 1)..Len(working_messages) :
        working_messages[j].role = "tool" /\ working_messages[j].id = id }

\* C8: whenever the adapter is invoked, every tool-call id of an assistant turn
\* of the working history is carried by exactly one later tool message.
C8_OneToolMessagePerCall ==
    (pc = "s_stream" /\ stream = <<>>) =>
        \A i \in 1..Len(working_messages) :
            \A id \in ToolUseIds(working_messages[i]) :
                Cardinality(ToolMessagesFor(i, id)) = 1

\* the tool.run calls in progress
Running ==
    { j \in 1..Len(exec_log) :
        /\ exec_log[j].op = "start"
        /\ ~\E j2 \in (j + 1)..Len(exec_log) :
               exec_log[j2].op = "end" /\ exec_log[j2].n = exec_log[j].n /\ exec_log[j2].k = exec_log[j].k }

\* the tool_result of call k of the current iteration that is no provisional one
FinalResults(k) ==
    { i \in EventsOfType("tool_result") :
        /\ events[i].n = iteration + 1 /\ events[i].k = k
        /\ events[i].val # <<"Waiting for user confirmation...">> }

\* C9: at most one tool.run is in progress; tool.run calls start in the order
\* of the tool calls; and while the tool of call k of an iteration runs, every
\* earlier call of the iteration has its tool_result emitted and its tool
\* message, with that result, in the working history.
C9_ToolsOneAtATime ==
    /\ Cardinality(Running) <= 1
    /\ \A j \in 1..Len(exec_log) :
          /\ exec_log[j].op = "end" => j > 1 /\ exec_log[j - 1] = [exec_log[j] EXCEPT !.op = "start"]
          /\ \A j2 \in (j + 1)..Len(exec_log) :
                (exec_log[j].op = "start" /\ exec_log[j2].op = "start")
                => \/ exec_log[j].n < exec_log[j2].n
                   \/ exec_log[j].n = exec_log[j2].n /\ exec_log[j].k < exec_log[j2].k
    /\ pc = "a_tool" =>
          /\ Running # {}
          /\ \A k \in 1..(tc_i - 1) :
                /\ Cardinality(FinalResults(k)) = 1
                /\ \A i \in FinalResults(k) :
                      \E m \in (Len(hist_at_iter) + 2)..Len(working_messages) :
                          /\ working_messages[m].role = "tool"
                          /\ working_messages[m].id = tool_calls[k].id
                          /\ working_messages[m].content = events[i].val

\* C9 witness: the second tool call of an iteration is running after the first
\* one ran and ended.
C9_Witness ==
    /\ pc = "a_tool"
    /\ tc_i = 2
    /\ \E j \in 1..Len(exec_log) :
          exec_log[j] = [op |-> "end", n |-> iteration + 1, k |-> 1]

\* call k of iteration n has been dealt with: the loop is past the yield of its
\* tool_result
Processed(n, k) ==
    \/ iteration + 1 > n
    \/ iteration + 1 = n /\ pc \in {"y_confirm", "y_waiting", "a_tool", "y_result", "raised"} /\ tc_i > k

\* C10: a tool call whose name is not in the tool map gets no
\* tool_confirmation_needed event and at most one tool_result event, which
\* contains the name; while the loop deals with the call it is at the yield of
\* that event (it has not raised, and runs no tool) and can go on to the next
\* tool call, the next iteration or the ceiling; once the loop is past the
\* call there is exactly one such event.
C10_UnknownToolResult ==
    \A i \in EventsOfType("tool_call") :
        events[i].name \notin tool_map(cfg) =>
            LET n == events[i].n
                k == events[i].k
                res == { j \in EventsOfType("tool_result") : events[j].n = n /\ events[j].k = k }
            IN  /\ ~\E j \in EventsOfType("tool_confirmation_needed") : events[j].n = n /\ events[j].k = k
                /\ Cardinality(res) <= 1
                /\ \A j \in res :
                      /\ \E p \in 1..Len(events[j].val) : events[j].val[p] = events[i].name
                      /\ events[j].val[1] = "Error: unknown tool '"
                /\ (iteration + 1 = n /\ tc_i = k
                        /\ pc \in {"y_confirm", "y_waiting", "a_tool", "y_result", "raised"})
                       => pc = "y_result" /\ Cardinality(res) = 1 /\ ENABLED ResumeResult
                /\ Processed(n, k) => Cardinality(res) = 1

\* C10 witness: a call to execute_command, which the tool map does not hold
\* because the terminal tools are disabled, has been answered and the loop has
\* gone on to the next iteration.
C10_Witness ==
    \E i \in EventsOfType("tool_call") :
        /\ events[i].name = "execute_command"
        /\ events[i].name \notin tool_map(cfg)
        /\ events[i].n = 1
        /\ pc = "s_stream" /\ iteration = 1

\* the first part of the result text for a tool.run that raised x
FailurePrefix(x) == IF x = "PermissionError" THEN "Permission denied: " ELSE "Tool error: "

\* C11: when the run of a known tool raises PermissionError the tool_result
\* text starts with "Permission denied: ", when it raises another exception
\* with "Tool error: "; the loop is then at the yield of that tool_result and
\* not ended, and when it is resumed it appends the tool message with that
\* result and the call's id to the working history and goes on to the next
\* tool call of the iteration or, after the last one, to the next iteration
\* or the ceiling.
C11_ToolFailureIsSoft ==
    /\ [][ \A x \in {"PermissionError", "Exception"} :
              ToolReturns(x) =>
                  /\ Len(events') = Len(events) + 1
                  /\ Last(events').type = "tool_result"
                  /\ Last(events').id = tool_calls[tc_i].id
                  /\ Last(events').val[1] = FailurePrefix(x)
                  /\ result' = Last(events').val
                  /\ pc' = "y_result"
                  /\ term' = "none" ]_vars
    /\ [][ pc = "y_result" =>
              /\ working_messages' = Append(working_messages,
                                            [role |-> "tool", shape |-> "text", content |-> result,
                                             key |-> IF is_anthropic THEN "tool_use_id" ELSE "tool_call_id",
                                             id |-> tool_calls[tc_i].id])
              /\ IF tc_i < Len(tool_calls)
                 THEN tc_i' = tc_i + 1 /\ iteration' = iteration
                 ELSE iteration' = iteration + 1 /\ pc' \in {"y_iteration", "y_ceiling"} ]_vars
    /\ [](pc = "y_result" => ENABLED ResumeResult)

\* C11 witness: the first tool of an iteration raised PermissionError, its
\* result is in the working history, and the second tool of the iteration
\* raised another exception and its tool_result has been emitted.
C11_Witness ==
    /\ pc = "y_result" /\ tc_i = 2
    /\ result[1] = "Tool error: "
    /\ Last(working_messages).role = "tool"
    /\ Last(working_messages).content = <<"Permission denied: ", "e">>
    /\ \E j \in 1..Len(exec_log) : exec_log[j] = [op |-> "end", n |-> iteration + 1, k |-> 2]

\* C12: the processing of a tool call never lets an exception leave
\* run_agent, and every tool call the loop is past has a tool_result event.
C12_ToolCallNeverRaises ==
    /\ pc # "raised"
    /\ term # "exception"
    /\ \A i \in EventsOfType("tool_call") :
          Processed(events[i].n, events[i].k) =>
              \E j \in EventsOfType("tool_result") :
                  /\ j > i
                  /\ events[j].n = events[i].n /\ events[j].k = events[i].k
                  /\ events[j].id = events[i].id

\* the result text of the provisional tool_result (loop.py:167)
Waiting == <<"Waiting for user confirmation...">>

\* event j is a tool_result for the tool call that event i is about
ResultFor(j, i) ==
    /\ events[j].type = "tool_result"
    /\ events[j].id = events[i].id /\ events[j].name = events[i].name
    /\ events[j].n = events[i].n /\ events[j].k = events[i].k

\* tool.run has been called, and has ended, for call k of iteration n
Executed(n, k) ==
    /\ \E j \in 1..Len(exec_log) : exec_log[j] = [op |-> "start", n |-> n, k |-> k]
    /\ \E j \in 1..Len(exec_log) : exec_log[j] = [op |-> "end", n |-> n, k |-> k]

\* C13 as the spec states it: the event after a tool_confirmation_needed event
\* is the real tool_result of the same call.
C13_ConfirmationThenRealResult ==
    \A i \in EventsOfType("tool_confirmation_needed") :
        i < Len(events) => ResultFor(i + 1, i) /\ events[i + 1].val # Waiting

\* C13, amended: a tool_confirmation_needed event is emitted only for a known
\* tool call that requires confirmation; the event after it is the provisional
\* tool_result of the same call, and the event after that one is the real
\* tool_result of the same call, emitted after tool.run was called for it and
\* ended, with the text the loop makes of a run's outcome; at either yield the
\* generator can be resumed.
C13_ConfirmationThenProvisionalThenReal ==
    \A i \in EventsOfType("tool_confirmation_needed") :
        /\ events[i].name \in tool_map(cfg)
        /\ requires_confirmation(cfg, events[i].name, events[i].input)
        /\ i = Len(events) => pc = "y_confirm" /\ ENABLED ResumeConfirm
        /\ i < Len(events) => ResultFor(i + 1, i) /\ events[i + 1].val = Waiting
        /\ i + 1 = Len(events) => \/ pc = "y_waiting" /\ ENABLED ResumeWaiting
                                  \/ pc = "a_tool" /\ \E o \in ToolOutcomes : ENABLED ToolReturns(o)
        /\ i + 1 < Len(events) =>
              /\ ResultFor(i + 2, i)
              /\ events[i + 2].val \in { ToolRunResult(o) : o \in ToolOutcomes }
              /\ Executed(events[i].n, events[i].k)
              /\ i + 2 = Len(events) => events[i + 2].val = result

\* C13 witness: the tool of a call that required confirmation raised
\* PermissionError, and the three events of the call have been emitted.
C13_Witness ==
    /\ Len(events) >= 3
    /\ events[Len(events) - 2].type = "tool_confirmation_needed"
    /\ Last(events).val = <<"Permission denied: ", "e">>
    /\ pc = "y_result"

\* the tool call is to a known tool and requires confirmation
Gated(tc) == tc.name \in tool_map(cfg) /\ requires_confirmation(cfg, tc.name, tc.input)

\* the calls of tool.run for call k of iteration n
StartsOf(n, k) == { j \in 1..Len(exec_log) : exec_log[j] = [op |-> "start", n |-> n, k |-> k] }

\* the tool messages with the id of the call in hand that the current iteration
\* has appended to the working history
ToolMessagesInHand ==
    { m \in (Len(hist_at_iter) + 1)..Len(working_messages) :
        working_messages[m].role = "tool" /\ working_messages[m].id = tool_calls[tc_i].id }

IterationStart ==
    CHOOSE i \in 1..Len(events) : events[i].type = "iteration" /\ events[i].n = adapter_calls

\* while the stream of an iteration is read
InStream == pc \in {"s_stream", "y_fwd", "y_error"}

\* C20: the events run_agent has emitted since the iteration event of the
\* stream it reads are exactly the events the adapter has yielded in that
\* stream, unchanged and in the same order, the first error event included,
\* after which the adapter is not read again; the events emitted after the
\* stream ended are not of the stream; and an event once emitted stays as it is.
C20_StreamForwardedUnchanged ==
    /\ [](adapter_calls >= 1 =>
            /\ \E i \in 1..Len(events) : events[i].type = "iteration" /\ events[i].n = adapter_calls
            /\ Len(events) >= IterationStart + Len(stream)
            /\ SubSeq(events, IterationStart + 1, IterationStart + Len(stream)) = stream
            /\ InStream => Len(events) = IterationStart + Len(stream)
            /\ \A j \in (IterationStart + Len(stream) + 1)..Len(events) :
                  \/ events[j].type \in {"tool_confirmation_needed", "tool_result", "iteration"}
                  \/ IsCeilingError(events[j])
            /\ \A j \in 1..Len(stream) :
                  stream[j].type = "error" => j = Len(stream) /\ pc \in {"y_error", "returned"})
    /\ [][ /\ Len(events') >= Len(events)
           /\ SubSeq(events', 1, Len(events)) = events
           /\ pc # "y_iteration" =>
                 /\ Len(stream') >= Len(stream)
                 /\ SubSeq(stream', 1, Len(stream)) = stream ]_vars

\* C20 witness: the adapter yielded a text_delta, a tool_call and an error in
\* one stream, and the run has returned.
C20_Witness ==
    /\ pc = "returned"
    /\ Len(stream) = 3
    /\ stream[1].type = "text_delta"
    /\ stream[2].type = "tool_call"
    /\ stream[3].type = "error"

\* C21: the caller's message list is never changed: at every point of a run,
\* and after it ended in any way, it has the length and the elements it was
\* passed in with, no step of the run changes it, and the working history is
\* the caller's messages followed by what the run appended.
C21_CallerListUntouched ==
    /\ [](/\ messages = << [role |-> "user", shape |-> "text",
                             content |-> <<"list files in /tmp">>, key |-> "", id |-> 0] >>
          /\ pc # "start" =>
                /\ Len(working_messages) >= Len(messages)
                /\ SubSeq(working_messages, 1, Len(messages)) = messages)
    /\ [][messages' = messages]_vars

\* C21 witness: a run that appended an assistant turn and a tool message to its
\* working history has ended on the iteration ceiling.
C21_Witness ==
    /\ pc = "returned" /\ term = "ceiling"
    /\ Len(working_messages) >= Len(messages) + 2
    /\ Len(messages) = 1

\* the ceiling errors the run has emitted
CeilingErrors == { i \in 1..Len(events) : IsCeilingError(events[i]) }

\* each of the max_iterations iterations was opened, ended without an adapter
\* error and carried a tool call
EveryIterationCallsTools ==
    \A n \in 1..cfg.max_iterations :
       /\ n <= adapter_calls
       /\ ToolCallsOf(n) # {}
       /\ ~\E i \in StreamEventsOf(n) : IsAdapterError(events[i])

\* every tool call of iteration n has its tool_result, no provisional one,
\* among the events before position i
ResolvedBefore(n, i) ==
    \A c \in ToolCallsOf(n) :
       \E r \in EventsOfType("tool_result") :
          /\ c < r /\ r < i
          /\ events[r].n = n /\ events[r].k = events[c].k
          /\ events[r].val # <<"Waiting for user confirmation...">>

\* the parts of C24 about where the ceiling error stands, and about a last
\* iteration without tool calls
CeilingErrorPlace ==
    /\ \A i \in CeilingErrors :
          /\ i = Len(events)
          /\ pc \in {"y_ceiling", "returned"}
          /\ ResolvedBefore(cfg.max_iterations, i)
    /\ ( /\ Ended
         /\ cfg.max_iterations >= 1 /\ adapter_calls = cfg.max_iterations
         /\ ToolCallsOf(cfg.max_iterations) = {}
         /\ ~\E i \in StreamEventsOf(cfg.max_iterations) : IsAdapterError(events[i]) )
       => EventsOfType("error") = {}

\* C24: a finished run has emitted the ceiling error if and only if each of
\* the N iterations ended without an adapter error and carried a tool call;
\* the ceiling error comes after the final tool_result of every tool call of
\* iteration N and is the last event; and a run whose N-th iteration carried
\* no tool call (and no adapter error) has emitted no error event
C24_CeilingIffEveryIterationCallsTools ==
    /\ Ended => (CeilingErrors # {} <=> EveryIterationCallsTools)
    /\ CeilingErrorPlace

\* C24 holds for the runs that no exception leaves
CeilingIffUnlessRaised ==
    /\ Ended /\ term # "exception" => (CeilingErrors # {} <=> EveryIterationCallsTools)
    /\ CeilingErrorPlace

\* the positions of the iteration events, and the k-th of them
IterationPositions == { i \in 1..Len(events) : events[i].type = "iteration" }
IterationPosition(k) ==
    CHOOSE i \in IterationPositions : Cardinality({ j \in IterationPositions : j <= i }) = k

\* C25: the k-th iteration event of a run carries n = k, so the numbers are
\* 1, 2, 3, ... without gap or repeat; every n is between 1 and
\* max_iterations; the first event of a run with max_iterations >= 1 is
\* iteration(1); and the adapter is invoked exactly once after each iteration
\* event and before the next one: a step that emits an iteration event invokes
\* no adapter, the adapter has been invoked as often as iteration events were
\* emitted, less the one the run is suspended at, and a step invokes it once
C25_IterationsNumbered ==
    /\ [](/\ \A k \in 1..Cardinality(IterationPositions) : events[IterationPosition(k)].n = k
          /\ Cardinality(IterationPositions) <= cfg.max_iterations
          /\ \A i \in IterationPositions : 1 <= events[i].n /\ events[i].n <= cfg.max_iterations
          /\ events # <<>> /\ cfg.max_iterations >= 1 =>
                events[1] = [type |-> "iteration", n |-> 1, k |-> 0, id |-> 0, name |-> "",
                             input |-> [kind |-> "none", content |-> "absent"], val |-> <<>>]
          /\ adapter_calls = IF pc = "y_iteration" THEN Cardinality(IterationPositions) - 1
                             ELSE Cardinality(IterationPositions))
    /\ [][/\ adapter_calls' \in {adapter_calls, adapter_calls + 1}
          /\ adapter_calls' = adapter_calls + 1 => pc = "y_iteration" /\ events' = events
          /\ (\E i \in 1..Len(events') : i > Len(events) /\ events'[i].type = "iteration")
                => adapter_calls' = adapter_calls /\ Len(events') = Len(events) + 1]_vars

\* C25 witness: a run with two iteration events and two adapter calls has ended
C25_Witness ==
    /\ pc = "returned"
    /\ Cardinality(IterationPositions) = 2
    /\ adapter_calls = 2
    /\ events[IterationPosition(2)].n = 2

\* tool call c (a position in events) has its final tool_result among the
\* events and its tool message, with that result, in the working history
Resolved(c) ==
    \E r \in EventsOfType("tool_result") :
       /\ r > c /\ ResultFor(r, c)
       /\ events[r].val # <<"Waiting for user confirmation...">>
       /\ \E m \in 1..Len(working_messages) :
             /\ working_messages[m].role = "tool"
             /\ working_messages[m].id = events[c].id
             /\ working_messages[m].content = events[r].val

\* C26: one adapter stream at most is open, and no tool runs while one is: a
\* stream is opened only when none is being read and no tool is running, a
\* tool runs only after the stream of its own iteration has ended, a stream
\* that has ended is not read again, and the stream of the next iteration is
\* opened only when every tool call of the iteration before has its final
\* result emitted and appended to the working history, on which it is opened
C26_OneStreamNoToolMeanwhile ==
    /\ [](/\ InStream => Running = {}
          /\ \A j \in Running :
                /\ exec_log[j].n = adapter_calls
                /\ pc = "a_tool"
                /\ Last(working_messages).role # "assistant" =>
                      \E m \in (Len(hist_at_iter) + 1)..Len(working_messages) :
                         working_messages[m].role = "assistant")
    /\ [][/\ adapter_calls' = adapter_calls + 1 =>
                /\ ~InStream /\ Running = {}
                /\ stream' = <<>> /\ hist_at_iter' = working_messages
                /\ \A c \in ToolCallsOf(adapter_calls) : Resolved(c)
          /\ adapter_calls' = adapter_calls /\ ~InStream => stream' = stream
          /\ Len(exec_log') > Len(exec_log) /\ exec_log'[Len(exec_log')].op = "start" =>
                /\ pc' = "a_tool"
                /\ pc \in {"s_stream", "y_waiting", "y_result"}
                /\ stream' = stream]_vars

\* C26 witness: the second stream is being read after an iteration with two
\* tool calls, the first of which a tool was run for
C26_Witness ==
    /\ pc = "s_stream" /\ adapter_calls = 2
    /\ Cardinality(ToolCallsOf(1)) = 2
    /\ Executed(1, 1)
    /\ Len(working_messages) >= 4

\* ------------------------------------------------------------------ two runs of run_agent on one event loop

\* the events both runs may emit in all
MaxTwoRunEvents == 8

\* the events one adapter call yields when two runs are followed
MaxTwoRunStream == 2

\* loop.py:91-209: the frame of the executing run: the locals of run_agent, its
\* argument, the events it has yielded and what is recorded of it
Frame ==
    [cfg |-> cfg, is_anthropic |-> is_anthropic, messages |-> messages,
     working_messages |-> working_messages, iteration |-> iteration,
     tool_calls |-> tool_calls, assistant_text |-> assistant_text,
     stop_reason |-> stop_reason, tc_i |-> tc_i, pc |-> pc, events |-> events,
     stream |-> stream, ad_flush |-> ad_flush, ad_done |-> ad_done,
     adapter_calls |-> adapter_calls, exec_log |-> exec_log,
     hist_at_iter |-> hist_at_iter, result |-> result, term |-> term]

\* the executing run's frame is f
IsFrame(f) ==
    /\ cfg = f.cfg
    /\ is_anthropic = f.is_anthropic
    /\ messages = f.messages
    /\ working_messages = f.working_messages
    /\ iteration = f.iteration
    /\ tool_calls = f.tool_calls
    /\ assistant_text = f.assistant_text
    /\ stop_reason = f.stop_reason
    /\ tc_i = f.tc_i
    /\ pc = f.pc
    /\ events = f.events
    /\ stream = f.stream
    /\ ad_flush = f.ad_flush
    /\ ad_done = f.ad_done
    /\ adapter_calls = f.adapter_calls
    /\ exec_log = f.exec_log
    /\ hist_at_iter = f.hist_at_iter
    /\ result = f.result
    /\ term = f.term

\* the event loop resumes the other generator, and both keep one tool_calls list
Switch_SharedAccumulator ==
    /\ active' = 3 - active
    /\ other' = Frame
    /\ cfg' = other.cfg
    /\ is_anthropic' = other.is_anthropic
    /\ messages' = other.messages
    /\ working_messages' = other.working_messages
    /\ iteration' = other.iteration
    /\ tool_calls' = tool_calls
    /\ assistant_text' = other.assistant_text
    /\ stop_reason' = other.stop_reason
    /\ tc_i' = other.tc_i
    /\ pc' = other.pc
    /\ events' = other.events
    /\ stream' = other.stream
    /\ ad_flush' = other.ad_flush
    /\ ad_done' = other.ad_done
    /\ adapter_calls' = other.adapter_calls
    /\ exec_log' = other.exec_log
    /\ hist_at_iter' = other.hist_at_iter
    /\ result' = other.result
    /\ term' = other.term
    /\ UNCHANGED << anthropicVars, openaiVars, gateVars, authVars, projVars, botVars, chatVars >>

\* loop.py:98-209: the executing generator is suspended at a yield or an await
\* (every pc is one), and the event loop resumes the other generator, whose
\* locals are those of its own frame
Switch ==
    /\ active' = 3 - active
    /\ other' = Frame
    /\ cfg' = other.cfg
    /\ is_anthropic' = other.is_anthropic
    /\ messages' = other.messages
    /\ working_messages' = other.working_messages
    /\ iteration' = other.iteration
    /\ tool_calls' = other.tool_calls
    /\ assistant_text' = other.assistant_text
    /\ stop_reason' = other.stop_reason
    /\ tc_i' = other.tc_i
    /\ pc' = other.pc
    /\ events' = other.events
    /\ stream' = other.stream
    /\ ad_flush' = other.ad_flush
    /\ ad_done' = other.ad_done
    /\ adapter_calls' = other.adapter_calls
    /\ exec_log' = other.exec_log
    /\ hist_at_iter' = other.hist_at_iter
    /\ result' = other.result
    /\ term' = other.term
    /\ UNCHANGED << anthropicVars, openaiVars, gateVars, authVars, projVars, botVars, chatVars >>

\* config.py:56-120: the configuration is one object for the process, so both
\* runs read the same one
TwoRunConfigs ==
    { c \in Configs : c.max_iterations = 1 /\ c.terminal_enabled /\ c.terminal_require_confirmation }

\* the tool calls the upstream models ask for when two runs are followed
TwoRunToolCalls == { <<"list_directory", JObject("absent")>>, <<"execute_command", JObject("absent")>> }

InitTwoRuns ==
    /\ AnthropicIdle
    /\ OpenAIIdle
    /\ GateIdle
    /\ AuthIdle
    /\ TransportsIdle
    /\ active = 1
    /\ \E c \in TwoRunConfigs : \E a1 \in BOOLEAN, a2 \in BOOLEAN :
          /\ IsFrame(NewFrame(c, a1, InitialMessages))
          /\ other = NewFrame(c, a2, OtherMessages)

\* a step of the executing run
RunStep ==
    /\ Next
    /\ Len(events') + Len(other.events) <= MaxTwoRunEvents
    /\ Len(stream') <= MaxTwoRunStream
    /\ \A i \in 1..Len(stream') :
          stream'[i].type = "tool_call" => << stream'[i].name, stream'[i].input >> \in TwoRunToolCalls

NextTwoRuns ==
    \/ RunStep
    \/ Switch

SpecTwoRuns == InitTwoRuns /\ [][NextTwoRuns]_vars

\* the frame of the first and of the second run
Run1 == IF active = 1 THEN Frame ELSE other
Run2 == IF active = 2 THEN Frame ELSE other

\* the tool calls the adapter has yielded to the run of frame f in this iteration
StreamToolCalls(f) ==
    LET idx == { i \in 1..Len(f.stream) : f.stream[i].type = "tool_call" }
        F[i \in 0..Len(f.stream)] ==
            IF i = 0 THEN <<>>
            ELSE IF i \in idx
                 THEN Append(F[i - 1], [id |-> f.stream[i].id, name |-> f.stream[i].name,
                                        input |-> f.stream[i].input])
                 ELSE F[i - 1]
    IN F[Len(f.stream)]

\* the text the adapter has yielded to the run of frame f in this iteration
StreamText(f) ==
    LET F[i \in 0..Len(f.stream)] ==
            IF i = 0 THEN <<>>
            ELSE IF f.stream[i].type = "text_delta"
                 THEN StrAdd(F[i - 1], f.stream[i].val[1])
                 ELSE F[i - 1]
    IN F[Len(f.stream)]

\* the iteration events the run of frame f has emitted
IterationEvents(f) == { i \in 1..Len(f.events) : f.events[i].type = "iteration" }

\* what the run of frame f holds is what its own adapter calls, its own tool
\* results and its own conversation make it
OwnState(f, msgs) ==
    /\ f.messages = msgs
    /\ f.pc # "start" =>
          /\ Len(f.working_messages) >= 1
          /\ SubSeq(f.working_messages, 1, 1) = msgs
    /\ f.tool_calls = StreamToolCalls(f)
    /\ f.assistant_text = StreamText(f)
    /\ Cardinality(IterationEvents(f)) =
          IF f.pc = "start" THEN 0
          ELSE IF f.iteration < f.cfg.max_iterations THEN f.iteration + 1
          ELSE f.cfg.max_iterations
    /\ \A i \in 1..Len(f.working_messages) :
          f.working_messages[i].id # 0 =>
             \E j \in 1..Len(f.events) :
                /\ f.events[j].type = "tool_call"
                /\ f.events[j].id = f.working_messages[i].id

\* C22: when two runs for different conversations are interleaved at their
\* suspension points in any order, a step of one run leaves the frame of the
\* other as it was, resuming a run gives it the frame it was suspended with,
\* and in every state each run's working history, accumulators and iteration
\* counter are those its own adapter events and its own conversation give
C22_RunsAreIsolated ==
    /\ [](OwnState(Run1, InitialMessages) /\ OwnState(Run2, OtherMessages))
    /\ [][/\ active' # active => Run1' = Run1 /\ Run2' = Run2
          /\ active' = active /\ active = 1 => Run2' = Run2
          /\ active' = active /\ active = 2 => Run1' = Run1]_vars

\* the first run has called a tool and ended, and the second, started while
\* the first was suspended, waits with another tool call in hand
C22_Witness ==
    /\ Run1.pc = "returned" /\ Len(Run1.exec_log) >= 1
    /\ Run2.pc = "y_confirm" /\ Len(Run2.tool_calls) = 1
    /\ Run1.tool_calls # Run2.tool_calls
    /\ Len(Run1.working_messages) >= 3 /\ Len(Run2.working_messages) = 2

\* the step that ends the reading of a stream decides from the tool calls of
\* the stream alone: without any the run returns there, whatever the stop
\* reason of a done event was, and with one the first call is taken up
DecidesFromToolCalls ==
    [][ (pc = "s_stream" /\ pc' \notin {"s_stream", "y_fwd", "y_error"}) =>
           IF StreamToolCalls(Frame) = <<>>
           THEN pc' = "returned" /\ term' = "normal" /\ events' = events
           ELSE pc' # "returned" /\ tc_i' = 1 ]_vars

\* what an ended run has done for each of its streams that ended without an
\* adapter error: after one with a tool call, every call has its final
\* tool_result and the next iteration's event, or the ceiling error, follows;
\* one without a tool call is the last, and the run returned after it
ContinuedAfter(n) ==
    IF ToolCallsOf(n) # {}
    THEN /\ ResolvedBefore(n, Len(events) + 1)
         /\ \/ \E i \in EventsOfType("iteration") : events[i].n = n + 1
            \/ CeilingErrors # {}
    ELSE n = adapter_calls /\ term = "normal"

\* C35: run_agent continues or ends by the tool calls of the iteration and not
\* by the stop_reason of the done event: a stream without a tool_call event
\* ends the run, with done{tool_calls} too, and a stream with a tool_call
\* event, with done{stop} or with no done event, leads to the results of its
\* calls and to the next iteration (or to the ceiling error)
C35_ContinuesByToolCalls ==
    /\ DecidesFromToolCalls
    /\ [](Ended =>
            \A n \in 1..adapter_calls :
               (~\E i \in StreamEventsOf(n) : IsAdapterError(events[i])) => ContinuedAfter(n))

\* C35 holds for the runs that no exception leaves
ContinuesByToolCallsUnlessRaised ==
    /\ DecidesFromToolCalls
    /\ [](Ended /\ term # "exception" =>
            \A n \in 1..adapter_calls :
               (~\E i \in StreamEventsOf(n) : IsAdapterError(events[i])) => ContinuedAfter(n))

\* the cases of C35 (a reachable state): a run has returned after a stream that ended with
\* done{tool_calls} and no tool call, which followed a stream with a tool
\* call and done{stop}
StopReasonCases ==
    /\ pc = "returned" /\ term = "normal" /\ adapter_calls = 2
    /\ stream = << [type |-> "done", n |-> 2, k |-> 0, id |-> 0, name |-> "",
                    input |-> [kind |-> "none", content |-> "absent"], val |-> <<"tool_calls">>] >>
    /\ \E i \in StreamEventsOf(1) : events[i].type = "done" /\ events[i].val = <<"stop">>
    /\ ToolCallsOf(1) # {}

\* ------------------------------------------------------------------ message projection
\* a content block
Block(type, text, id, name, input) ==
    [type |-> type, text |-> text, id |-> id, name |-> name, input |-> input]

\* anthropic.py:97-119: the history in the Anthropic API format. A tool message
\* becomes a user message with one tool_result block, whose tool_use_id is
\* msg.get("tool_use_id", ""); a list content is passed on as it is.
to_anthropic_messages(msgs) ==
    [i \in 1..Len(msgs) |->
        LET msg == msgs[i] IN
        IF msg.role = "tool"
        THEN Msg("user", "blocks",
                 << Block("tool_result", msg.content,
                          IF msg.key = "tool_use_id" THEN msg.id ELSE 0, "", NoInput) >>, "", 0)
        ELSE Msg(msg.role, msg.shape, msg.content, "", 0)]

\* openai_compat.py:44-92: a string content is kept; of a list content the text
\* blocks and the tool_result blocks are kept as text blocks, an image block
\* (base64) becomes an image_url block, and every other block the loop writes
\* (tool_use) is dropped; no block left gives "", and one text block left
\* gives its text
convert_content_for_openai(shape, content) ==
    IF shape = "text" THEN [shape |-> "text", content |-> content]
    ELSE LET kept == SelectSeq(content, LAMBDA b : b.type \in {"text", "tool_result", "image"})
             res == [j \in 1..Len(kept) |->
                       IF kept[j].type = "image"
                       THEN Block("image_url", <<"data:", "image/jpeg", ";base64,">> \o kept[j].text,
                                  0, "", NoInput)
                       ELSE Block("text", kept[j].text, 0, "", NoInput)]
         IN  IF res = <<>> THEN [shape |-> "text", content |-> <<>>]
             ELSE IF Len(res) = 1 /\ res[1].type = "text"
                  THEN [shape |-> "text", content |-> res[1].text]
             ELSE [shape |-> "blocks", content |-> res]

\* the tool message carries msg.get("tool_use_id", "") as tool_call_id
openai_messages_ToolUseIdOnly(msgs) ==
    << Msg("system", "text", <<"system prompt">>, "", 0) >>
    \o [i \in 1..Len(msgs) |->
          LET msg == msgs[i] IN
          IF msg.role = "tool"
          THEN Msg("tool", "text", msg.content, "tool_call_id",
                   IF msg.key = "tool_use_id" THEN msg.id ELSE 0)
          ELSE LET c == convert_content_for_openai(msg.shape, msg.content)
               IN  Msg(msg.role, c.shape, c.content, "", 0)]

\* openai_compat.py:115-126: the system prompt, then the history; a tool message
\* carries msg.get("tool_use_id", msg.get("tool_call_id", "")) as tool_call_id
openai_messages(msgs) ==
    << Msg("system", "text", <<"system prompt">>, "", 0) >>
    \o [i \in 1..Len(msgs) |->
          LET msg == msgs[i] IN
          IF msg.role = "tool"
          THEN Msg("tool", "text", msg.content, "tool_call_id", msg.id)
          ELSE LET c == convert_content_for_openai(msg.shape, msg.content)
               IN  Msg(msg.role, c.shape, c.content, "", 0)]

\* the messages the adapter of the run sends upstream for the working history
Outbound ==
    IF is_anthropic THEN to_anthropic_messages(working_messages)
    ELSE openai_messages(working_messages)

\* the tool calls (id, name, input) an outbound message carries, in order
WireToolCalls(m) ==
    IF m.shape # "blocks" THEN <<>>
    ELSE LET tu == SelectSeq(m.content, LAMBDA b : b.type = "tool_use")
         IN  [j \in 1..Len(tu) |-> [id |-> tu[j].id, name |-> tu[j].name, input |-> tu[j].input]]

\* the tool calls of the assistant turn of iteration n, in order
TurnToolCalls(n) ==
    LET tcs == SelectSeq(events, LAMBDA e : e.type = "tool_call" /\ e.n = n)
    IN  [j \in 1..Len(tcs) |-> [id |-> tcs[j].id, name |-> tcs[j].name, input |-> tcs[j].input]]

\* C15: when the adapter is called, for either provider, every earlier
\* assistant turn with two tool calls is in the outbound messages as an
\* assistant message that carries both calls' id, name and input, unchanged
\* and in the original order.
C15_ToolCallsSurviveProjection ==
    (pc = "s_stream" /\ stream = <<>>) =>
        \A n \in 1..(adapter_calls - 1) :
            Len(TurnToolCalls(n)) = 2 =>
                \E m \in 1..Len(Outbound) :
                    /\ Outbound[m].role = "assistant"
                    /\ WireToolCalls(Outbound[m]) = TurnToolCalls(n)

\* the blocks an assistant turn of the content-block provider is to have for
\* the text and the tool calls of the stream: a text block if there is text,
\* then a tool_use block for every call
TurnBlocks(text, tcs) ==
    (IF text # <<>>
     THEN << [type |-> "text", text |-> text, id |-> 0, name |-> "",
              input |-> [kind |-> "none", content |-> "absent"]] >>
     ELSE <<>>)
    \o [j \in 1..Len(tcs) |->
          [type |-> "tool_use", text |-> <<>>, id |-> tcs[j].id, name |-> tcs[j].name,
           input |-> tcs[j].input]]

\* C32: for the content-block provider, the step that ends the reading of a
\* stream appends an assistant message whose content is one text block if
\* and only if the stream carried text, followed by one tool_use block for
\* every tool_call event of the stream, in their order; and
\* _to_anthropic_messages gives one message for every message of the working
\* history, in the same order, a tool message as a user message with a single
\* tool_result block that carries the id of the call it answers and its result
C32_AnthropicTurnAndToolResults ==
    /\ [][ (is_anthropic /\ pc = "s_stream" /\ pc' \notin {"s_stream", "y_fwd", "y_error"}) =>
              /\ Len(working_messages') >= Len(working_messages) + 1
              /\ working_messages'[Len(working_messages) + 1] =
                    [role |-> "assistant", shape |-> "blocks",
                     content |-> TurnBlocks(StreamText(Frame), StreamToolCalls(Frame)),
                     key |-> "", id |-> 0] ]_vars
    /\ [](is_anthropic =>
            LET out == to_anthropic_messages(working_messages) IN
            /\ Len(out) = Len(working_messages)
            /\ \A i \in 1..Len(out) :
                  IF working_messages[i].role = "tool"
                  THEN /\ out[i].role = "user" /\ out[i].shape = "blocks"
                       /\ Len(out[i].content) = 1
                       /\ out[i].content[1].type = "tool_result"
                       /\ out[i].content[1].text = working_messages[i].content
                       /\ \E r \in EventsOfType("tool_result") :
                             /\ events[r].id = out[i].content[1].id
                             /\ events[r].val = out[i].content[1].text
                             /\ \E c \in 1..(r - 1) : ResultFor(r, c) /\ events[c].type = "tool_call"
                  ELSE /\ out[i].role = working_messages[i].role
                       /\ out[i].content = working_messages[i].content)

\* C32 witness: a turn of the content-block provider with text and two tool
\* calls is in the working history, with a tool message for each call
C32_Witness ==
    /\ is_anthropic
    /\ \E m \in 1..Len(working_messages) :
          /\ working_messages[m].role = "assistant"
          /\ Len(working_messages[m].content) = 3
          /\ working_messages[m].content[1].type = "text"
          /\ working_messages[m].content[3].type = "tool_use"
    /\ Cardinality({ m \in 1..Len(working_messages) : working_messages[m].role = "tool" }) >= 2

\* ------------------------------------------------------------------ adapters: shared
\* most upstream events (content-block adapter) or chunks (delta-chunk
\* adapter) one stream_chat call reads
MaxUpstream == 4

\* json.loads on a text over the characters "{", "}" and "7": "{}" is the empty
\* object, a run of 7s is a number, anything else raises JSONDecodeError
JsonLoads(text) ==
    IF text = <<"{", "}">> THEN [ok |-> TRUE, value |-> JObject("absent")]
    ELSE IF text # <<>> /\ \A i \in 1..Len(text) : text[i] = "7"
         THEN [ok |-> TRUE, value |-> JNumber]
    ELSE [ok |-> FALSE, value |-> NoInput]

\* anthropic.py:69-72 and openai_compat.py:175-178, 189-192:
\* json.loads(buffer) if buffer else {}, and {} on JSONDecodeError
ParseToolInput(buffer) ==
    IF buffer = <<>> THEN JObject("absent")
    ELSE IF JsonLoads(buffer).ok THEN JsonLoads(buffer).value
    ELSE JObject("absent")

\* the fragments of argument text the upstream sends; a fragment can be empty
JsonFragments == { <<>>, <<"{">>, <<"}">>, <<"7">>, <<"{", "}">> }

\* the run_agent variables while an adapter call is looked at on its own
LoopIdle ==
    /\ cfg = [filesystem_enabled |-> TRUE, terminal_enabled |-> TRUE, web_search_enabled |-> TRUE,
              terminal_require_confirmation |-> TRUE,
              require_confirmation_for |-> {"write_file", "delete_file"},
              max_iterations |-> MaxIterations]
    /\ is_anthropic = FALSE
    /\ messages = InitialMessages
    /\ working_messages = <<>>
    /\ iteration = 0
    /\ tool_calls = <<>>
    /\ assistant_text = <<>>
    /\ stop_reason = "None"
    /\ tc_i = 0
    /\ pc = "start"
    /\ events = <<>>
    /\ stream = <<>>
    /\ ad_flush = FALSE
    /\ ad_done = FALSE
    /\ adapter_calls = 0
    /\ exec_log = <<>>
    /\ hist_at_iter = <<>>
    /\ result = <<>>
    /\ term = "none"

\* ------------------------------------------------------------------ the outbound messages of OpenAICompatAdapter
\* the messages of a history in one building of the outbound messages
MaxHistory == 2

\* the messages a history holds: the text messages chat.py:117-118 and
\* bot.py:187-191 load, a user message with content blocks, the assistant turns
\* and the tool messages run_agent appends for either provider
HistoryMessages ==
    << Msg("user", "text", <<"hi">>, "", 0),
      Msg("assistant", "text", <<"hi">>, "", 0),
      Msg("assistant", "blocks",
          << Block("text", <<"hi">>, 0, "", NoInput),
             Block("tool_use", <<>>, 1, "list_directory", JObject("absent")) >>, "", 0),
      Msg("assistant", "blocks",
          << Block("tool_use", <<>>, 1, "list_directory", JObject("absent")) >>, "", 0),
      Msg("user", "blocks", << Block("text", <<"hi">>, 0, "", NoInput) >>, "", 0),
      Msg("user", "blocks",
          << Block("text", <<"hi">>, 0, "", NoInput), Block("text", <<"yo">>, 0, "", NoInput) >>,
          "", 0),
      Msg("user", "blocks", << Block("image", <<"aGk=">>, 0, "", NoInput) >>, "", 0),
      Msg("tool", "text", <<"output">>, "tool_use_id", 1),
      Msg("tool", "text", <<"output">>, "tool_call_id", 2) >>

\* the histories of at most MaxHistory messages, as the places of their
\* messages in HistoryMessages
Histories ==
    UNION { [1..n -> 1..Len(HistoryMessages)] : n \in 0..MaxHistory }

InitProjection ==
    /\ LoopIdle /\ AnthropicIdle /\ OpenAIIdle /\ GateIdle /\ OneRun /\ AuthIdle
    /\ BotIdle /\ ChatIdle
    /\ pj_pc = "called"
    /\ \E h \in Histories : pj_messages = [i \in 1..Len(h) |-> HistoryMessages[h[i]]]
    /\ openai_messages_out = <<>>

\* openai_compat.py:115-126: the outbound message list is built
BuildOpenAIMessages ==
    /\ pj_pc = "called"
    /\ openai_messages_out' = openai_messages(pj_messages)
    /\ pj_pc' = "done"
    /\ UNCHANGED pj_messages
    /\ UNCHANGED << loopVars, anthropicVars, openaiVars, gateVars, runsVars, authVars, botVars,
                    chatVars >>

NextProjection == BuildOpenAIMessages

SpecProjection == InitProjection /\ [][NextProjection]_vars

\* the text blocks a list content converts to: its text and tool_result blocks
TextLike(content) == SelectSeq(content, LAMBDA b : b.type \in {"text", "tool_result"})

\* C33: the outbound message list of the delta-chunk provider is one system
\* message followed by one message for every history message, in the same
\* order and with the same role, and no other system message; a tool message
\* of the history is sent as a tool message whose tool_call_id is the id the
\* history message carries, as tool_use_id or as tool_call_id, with the same
\* content; and a list content that converts to a single text block is sent
\* as the plain text of that block
C33_OpenAIOutbound ==
    pj_pc = "done" =>
       LET out == openai_messages_out IN
       /\ Len(out) = Len(pj_messages) + 1
       /\ out[1] = [role |-> "system", shape |-> "text", content |-> <<"system prompt">>,
                    key |-> "", id |-> 0]
       /\ \A i \in 2..Len(out) : out[i].role # "system"
       /\ \A i \in 1..Len(pj_messages) :
             LET m == pj_messages[i] IN
             /\ out[i + 1].role = m.role
             /\ m.role = "tool" =>
                   /\ out[i + 1].key = "tool_call_id"
                   /\ out[i + 1].id = m.id
                   /\ out[i + 1].content = m.content
             /\ (m.role # "tool" /\ m.shape = "text") =>
                   out[i + 1].shape = "text" /\ out[i + 1].content = m.content
             /\ (m.role # "tool" /\ m.shape = "blocks" /\ Len(TextLike(m.content)) = 1
                   /\ \A b \in 1..Len(m.content) : m.content[b].type # "image") =>
                   out[i + 1].shape = "text" /\ out[i + 1].content = TextLike(m.content)[1].text

\* C33 witness: a history of an assistant turn with a text block and a
\* tool_use block, and the tool message that answers it with a tool_call_id,
\* was sent as the turn's plain text and a tool message with that id
C33_Witness ==
    /\ pj_pc = "done"
    /\ Len(pj_messages) = 2
    /\ pj_messages[1].role = "assistant" /\ pj_messages[1].shape = "blocks"
    /\ Len(pj_messages[1].content) = 2
    /\ pj_messages[2].role = "tool" /\ pj_messages[2].key = "tool_call_id"
    /\ openai_messages_out[2].shape = "text" /\ openai_messages_out[2].content = <<"hi">>
    /\ openai_messages_out[3].id = 2

\* ------------------------------------------------------------------ the confirmation gate
\* the tool names the two functions are called with: the names of the tools,
\* and a name that is no tool's
GateNames == FILESYSTEM_TOOLS \cup TERMINAL_TOOLS \cup WEB_SEARCH_TOOLS \cup {"frobnicate"}

\* the tool inputs they are called with: what json.loads can return
GateInputs == { JObject("absent"), JObject("string"), JObject("number"), JNumber }

InitGate ==
    /\ LoopIdle /\ AnthropicIdle /\ OpenAIIdle /\ OneRun /\ AuthIdle /\ TransportsIdle
    /\ g_pc = "called"
    /\ g_cfg \in Configs
    /\ g_tool_name \in GateNames
    /\ g_tool_input \in GateInputs
    /\ g_required = FALSE
    /\ g_message = <<>>

\* loop.py:44-55: _requires_confirmation(tool_name, tool_input) returns
CallRequiresConfirmation ==
    /\ g_pc = "called"
    /\ g_required' = requires_confirmation(g_cfg, g_tool_name, g_tool_input)
    /\ g_pc' = "checked"
    /\ UNCHANGED << g_cfg, g_tool_name, g_tool_input, g_message >>
    /\ UNCHANGED << loopVars, anthropicVars, openaiVars, runsVars, authVars,
                    projVars, botVars, chatVars >>

\* loop.py:58-75: _format_confirmation_message(tool_name, tool_input) returns
\* the message, or raises
CallFormatConfirmationMessage ==
    /\ g_pc = "checked"
    /\ IF format_confirmation_message(g_tool_name, g_tool_input).raises
       THEN /\ g_pc' = "raised"
            /\ g_message' = g_message
       ELSE /\ g_pc' = "formatted"
            /\ g_message' = format_confirmation_message(g_tool_name, g_tool_input).msg
    /\ UNCHANGED << g_cfg, g_tool_name, g_tool_input, g_required >>
    /\ UNCHANGED << loopVars, anthropicVars, openaiVars, runsVars, authVars,
                    projVars, botVars, chatVars >>

NextGate ==
    \/ CallRequiresConfirmation
    \/ CallFormatConfirmationMessage

SpecGate == InitGate /\ [][NextGate]_vars

\* the names the gate has a rule for
GatedNames == {"execute_command", "write_file", "delete_file"}

\* the rest of C17 when the formatter has not raised: for a name the gate has
\* no rule for, _requires_confirmation returns false and the formatter the
\* default message
GateDefaults ==
    g_tool_name \notin GatedNames =>
        /\ g_pc \in {"checked", "formatted"} => g_required = FALSE
        /\ g_pc = "formatted" => g_message = <<"Run ", g_tool_name, " with: ">>
        /\ g_pc # "raised"

\* C17: both functions return for every tool name and input, neither raises,
\* and for a name other than execute_command, write_file and delete_file
\* _requires_confirmation returns false and the formatter returns the default
\* "Run <name> with: ..." message.
C17_GateTotal ==
    /\ g_pc # "raised"
    /\ GateDefaults

\* ------------------------------------------------------------------ api_key_middleware
\* key texts: the configured key, another key, the configured key between
\* blanks, blanks only, and the empty text
KeyTexts == {"", "k", "other", " k ", "  "}

\* str.strip() on the key texts
Strip(t) == IF t = " k " THEN "k" ELSE IF t = "  " THEN "" ELSE t

\* auth.py:24
PUBLIC_PATHS == {"/api/health"}

\* request paths
Paths == {"/api/health", "/api/chat", "/api/health/"}

\* values of the Authorization header: absent (the default ""), or a scheme
\* prefix and a credential
AuthHeaders == { <<>> } \cup { << p, t >> : p \in {"Bearer ", "bearer ", "Basic "}, t \in KeyTexts }

\* auth.py:42: auth_header.startswith("Bearer ")
StartsWithBearer(h) == h # <<>> /\ h[1] = "Bearer "

InitAuth ==
    /\ LoopIdle /\ AnthropicIdle /\ OpenAIIdle /\ GateIdle /\ OneRun /\ TransportsIdle
    /\ h_pc = "called"
    /\ env_API_KEY \in KeyTexts
    /\ request_path \in Paths
    /\ auth_header = <<>>
    /\ x_api_key = ""
    /\ provided = ""
    /\ response = "none"

\* auth.py:27-55: one call of the middleware, for a request with the headers
\* Authorization: ah and X-API-Key: xk
ApiKeyMiddleware(ah, xk) ==
    /\ h_pc = "called"
    /\ auth_header' = ah
    /\ x_api_key' = xk
    /\ LET api_key == Strip(env_API_KEY)
           p == IF StartsWithBearer(ah) THEN Strip(ah[2])
                ELSE IF xk # "" THEN Strip(xk)
                ELSE ""
       IN /\ provided' = IF api_key = "" \/ request_path \in PUBLIC_PATHS THEN "" ELSE p
          /\ response' = IF api_key = "" THEN "call_next"
                         ELSE IF request_path \in PUBLIC_PATHS THEN "call_next"
                         ELSE IF p # api_key THEN "401"
                         ELSE "call_next"
    /\ h_pc' = "done"
    /\ UNCHANGED << env_API_KEY, request_path >>
    /\ UNCHANGED << loopVars, anthropicVars, openaiVars, gateVars, runsVars,
                    projVars, botVars, chatVars >>

NextAuth == \E ah \in AuthHeaders, xk \in KeyTexts : ApiKeyMiddleware(ah, xk)

SpecAuth == InitAuth /\ [][NextAuth]_vars

\* the request carries the key t in the Authorization header, or in X-API-Key
CarriesKey(t) == auth_header = << "Bearer ", t >> \/ x_api_key = t

\* C23: with API_KEY configured, a request to a path other than /api/health
\* reaches the handler if it carries the configured key as Authorization:
\* Bearer <key> or as X-API-Key: <key>, and is answered 401 otherwise;
\* /api/health always reaches the handler; with API_KEY empty every request does
C23_KeyInEitherHeader ==
    h_pc = "done" =>
       /\ env_API_KEY = "" => response = "call_next"
       /\ request_path = "/api/health" => response = "call_next"
       /\ env_API_KEY = "k" /\ request_path # "/api/health" =>
             /\ CarriesKey("k") => response = "call_next"
             /\ ~(CarriesKey("k") \/ CarriesKey(" k ")) => response = "401"

\* the part of C23 that holds: the public path and the empty API_KEY admit
\* every request, a request without the key in either header is answered 401,
\* and a request with the key in one header and no Bearer header beside it
\* reaches the handler
AuthWhereHeadersDoNotCompete ==
    h_pc = "done" =>
       /\ env_API_KEY = "" => response = "call_next"
       /\ request_path = "/api/health" => response = "call_next"
       /\ env_API_KEY = "k" /\ request_path # "/api/health" =>
             /\ ~(CarriesKey("k") \/ CarriesKey(" k ")) => response = "401"
             /\ auth_header = << "Bearer ", "k" >> => response = "call_next"
             /\ x_api_key = "k" /\ ~StartsWithBearer(auth_header) => response = "call_next"

\* ------------------------------------------------------------------ AnthropicAdapter.stream_chat
\* the events of the SDK's message stream (anthropic.py:50-85)
UpstreamEvents ==
    { [type |-> "RawContentBlockStartEvent", block |-> "tool_use", id |-> b[1], name |-> b[2],
       delta |-> "", text |-> "", partial_json |-> <<>>] :
         b \in { <<1, "list_directory">>, <<2, "execute_command">> } }
    \cup { [type |-> "RawContentBlockStartEvent", block |-> "text", id |-> 0, name |-> "",
            delta |-> "", text |-> "", partial_json |-> <<>>] }
    \cup { [type |-> "RawContentBlockDeltaEvent", block |-> "", id |-> 0, name |-> "",
            delta |-> "text_delta", text |-> t, partial_json |-> <<>>] : t \in Texts }
    \cup { [type |-> "RawContentBlockDeltaEvent", block |-> "", id |-> 0, name |-> "",
            delta |-> "input_json_delta", text |-> "", partial_json |-> f] : f \in JsonFragments }
    \cup { [type |-> t, block |-> "", id |-> 0, name |-> "", delta |-> "", text |-> "",
            partial_json |-> <<>>] :
         t \in {"RawContentBlockStopEvent", "RawMessageStopEvent", "RawMessageStartEvent"} }

\* the exceptions the SDK raises, and the message of the error event for each
\* (anthropic.py:89-94)
AnthropicExceptions == {"AuthenticationError", "APIConnectionError", "Exception"}
AnthropicErrorMessage(x) ==
    IF x = "AuthenticationError" THEN <<"Invalid Anthropic API key">>
    ELSE IF x = "APIConnectionError" THEN <<"Connection error: ", "e">>
    ELSE <<"e">>

\* anthropic.py:23-27: the anthropic package is missing
AnthropicImportError ==
    /\ a_pc = "idle"
    /\ a_out' = Append(a_out, Ev("error", 0, 0, 0, "", NoInput, <<"anthropic package not installed">>))
    /\ a_pc' = "ended"
    /\ UNCHANGED << current_tool_id, current_tool_name, current_tool_input_json, a_read,
                    a_fragments >>
    /\ UNCHANGED << loopVars, openaiVars, gateVars, runsVars, authVars,
                    projVars, botVars, chatVars >>

\* anthropic.py:29-47: the request is built and the stream is opened
AnthropicOpen ==
    /\ a_pc = "idle"
    /\ current_tool_id' = 0
    /\ current_tool_name' = "None"
    /\ current_tool_input_json' = <<>>
    /\ a_pc' = "streaming"
    /\ a_fragments' = <<>>
    /\ UNCHANGED << a_read, a_out >>
    /\ UNCHANGED << loopVars, openaiVars, gateVars, runsVars, authVars,
                    projVars, botVars, chatVars >>

\* the block-stop of a tool-use block leaves the buffer open
AnthropicEvent_BufferStaysOpen(u) ==
    /\ a_pc = "streaming"
    /\ a_read < MaxUpstream
    /\ a_read' = a_read + 1
    /\ a_pc' = a_pc
    /\ a_fragments' = IF u.type = "RawContentBlockStartEvent" /\ u.block = "tool_use" THEN <<>>
                      ELSE IF u.type = "RawContentBlockDeltaEvent" /\ u.delta = "input_json_delta"
                           THEN Append(a_fragments, u.partial_json)
                      ELSE a_fragments
    /\ IF u.type = "RawContentBlockStartEvent" THEN
          /\ IF u.block = "tool_use"
             THEN /\ current_tool_id' = u.id
                  /\ current_tool_name' = u.name
                  /\ current_tool_input_json' = <<>>
             ELSE UNCHANGED << current_tool_id, current_tool_name, current_tool_input_json >>
          /\ a_out' = a_out
       ELSE IF u.type = "RawContentBlockDeltaEvent" THEN
          IF u.delta = "text_delta"
          THEN /\ a_out' = Append(a_out, Ev("text_delta", 0, 0, 0, "", NoInput, <<u.text>>))
               /\ UNCHANGED << current_tool_id, current_tool_name, current_tool_input_json >>
          ELSE /\ current_tool_input_json' = current_tool_input_json \o u.partial_json
               /\ UNCHANGED << current_tool_id, current_tool_name, a_out >>
       ELSE IF u.type = "RawContentBlockStopEvent" THEN
          IF current_tool_name # "None"
          THEN /\ a_out' = Append(a_out, Ev("tool_call", 0, 0, current_tool_id, current_tool_name,
                                            ParseToolInput(current_tool_input_json), <<>>))
               /\ UNCHANGED << current_tool_id, current_tool_name, current_tool_input_json >>
          ELSE UNCHANGED << current_tool_id, current_tool_name, current_tool_input_json, a_out >>
       ELSE IF u.type = "RawMessageStopEvent" THEN
          /\ \E s \in StopReasons : a_out' = Append(a_out, Ev("done", 0, 0, 0, "", NoInput, <<s>>))
          /\ UNCHANGED << current_tool_id, current_tool_name, current_tool_input_json >>
       ELSE UNCHANGED << current_tool_id, current_tool_name, current_tool_input_json, a_out >>
    /\ UNCHANGED << loopVars, openaiVars, gateVars, runsVars, authVars,
                    projVars, botVars, chatVars >>

\* anthropic.py:49-87: the stream hands over its next event u
AnthropicEvent(u) ==
    /\ a_pc = "streaming"
    /\ a_read < MaxUpstream
    /\ a_read' = a_read + 1
    /\ a_pc' = a_pc
    /\ a_fragments' = IF u.type = "RawContentBlockStartEvent" /\ u.block = "tool_use" THEN <<>>
                      ELSE IF u.type = "RawContentBlockDeltaEvent" /\ u.delta = "input_json_delta"
                           THEN Append(a_fragments, u.partial_json)
                      ELSE a_fragments
    /\ IF u.type = "RawContentBlockStartEvent" THEN
          /\ IF u.block = "tool_use"
             THEN /\ current_tool_id' = u.id
                  /\ current_tool_name' = u.name
                  /\ current_tool_input_json' = <<>>
             ELSE UNCHANGED << current_tool_id, current_tool_name, current_tool_input_json >>
          /\ a_out' = a_out
       ELSE IF u.type = "RawContentBlockDeltaEvent" THEN
          IF u.delta = "text_delta"
          THEN /\ a_out' = Append(a_out, Ev("text_delta", 0, 0, 0, "", NoInput, <<u.text>>))
               /\ UNCHANGED << current_tool_id, current_tool_name, current_tool_input_json >>
          ELSE /\ current_tool_input_json' = current_tool_input_json \o u.partial_json
               /\ UNCHANGED << current_tool_id, current_tool_name, a_out >>
       ELSE IF u.type = "RawContentBlockStopEvent" THEN
          IF current_tool_name # "None"
          THEN /\ a_out' = Append(a_out, Ev("tool_call", 0, 0, current_tool_id, current_tool_name,
                                            ParseToolInput(current_tool_input_json), <<>>))
               /\ current_tool_id' = 0
               /\ current_tool_name' = "None"
               /\ current_tool_input_json' = <<>>
          ELSE UNCHANGED << current_tool_id, current_tool_name, current_tool_input_json, a_out >>
       ELSE IF u.type = "RawMessageStopEvent" THEN
          /\ \E s \in StopReasons : a_out' = Append(a_out, Ev("done", 0, 0, 0, "", NoInput, <<s>>))
          /\ UNCHANGED << current_tool_id, current_tool_name, current_tool_input_json >>
       ELSE UNCHANGED << current_tool_id, current_tool_name, current_tool_input_json, a_out >>
    /\ UNCHANGED << loopVars, openaiVars, gateVars, runsVars, authVars,
                    projVars, botVars, chatVars >>

\* anthropic.py:89-94: opening the stream, reading it or get_final_message
\* raises x; the error event is yielded and the generator ends
AnthropicRaises(x) ==
    /\ a_pc = "streaming"
    /\ a_out' = Append(a_out, Ev("error", 0, 0, 0, "", NoInput, AnthropicErrorMessage(x)))
    /\ a_pc' = "ended"
    /\ UNCHANGED << current_tool_id, current_tool_name, current_tool_input_json, a_read,
                    a_fragments >>
    /\ UNCHANGED << loopVars, openaiVars, gateVars, runsVars, authVars,
                    projVars, botVars, chatVars >>

\* anthropic.py:49, 44: the stream is exhausted; the generator ends
AnthropicExhausted ==
    /\ a_pc = "streaming"
    /\ a_pc' = "ended"
    /\ UNCHANGED << current_tool_id, current_tool_name, current_tool_input_json, a_read, a_out,
                    a_fragments >>
    /\ UNCHANGED << loopVars, openaiVars, gateVars, runsVars, authVars,
                    projVars, botVars, chatVars >>

InitAnthropic ==
    LoopIdle /\ AnthropicIdle /\ OpenAIIdle /\ GateIdle /\ OneRun /\ AuthIdle /\ TransportsIdle

NextAnthropic ==
    \/ AnthropicImportError
    \/ AnthropicOpen
    \/ \E u \in UpstreamEvents : AnthropicEvent(u)
    \/ \E x \in AnthropicExceptions : AnthropicRaises(x)
    \/ AnthropicExhausted

SpecAnthropic == InitAnthropic /\ [][NextAnthropic]_vars

Terminal(out) == { i \in 1..Len(out) : out[i].type \in {"done", "error"} }

AnthropicErrorIsLast ==
    \A i \in 1..Len(a_out) : a_out[i].type = "error" => i = Len(a_out) /\ a_pc = "ended"

\* ------------------------------------------------------------------ OpenAICompatAdapter.stream_chat
\* a tool-call delta of a chunk (openai_compat.py:161-171); id 0 and name ""
\* stand for None, has_function for tc_delta.function
TcDelta(index, id, name, arguments) ==
    [index |-> index, id |-> id, has_function |-> TRUE, name |-> name, arguments |-> arguments]

\* the deltas the upstream sends: one that names the call of an index, one
\* that gives it an id and no name, one with another id and name for an
\* index, and fragments of its arguments
TcDeltas ==
    { TcDelta(0, 1, "list_directory", <<>>), TcDelta(1, 2, "execute_command", <<>>),
      TcDelta(0, 1, "", <<>>), TcDelta(0, 3, "read_file", <<>>),
      TcDelta(0, 0, "", <<"{">>), TcDelta(0, 0, "", <<"}">>), TcDelta(1, 0, "", <<"7">>),
      TcDelta(0, 0, "", <<"{", "}">>), TcDelta(0, 0, "", <<"7">>) }

\* choice.finish_reason; "None" stands for None
FinishReasons == {"None", "tool_calls", "stop", "length", "content_filter"}

\* a chunk: chunk.choices is empty, or its first choice carries content, tool
\* call deltas and a finish_reason
Chunk(has_choices, content, deltas, finish_reason) ==
    [has_choices |-> has_choices, content |-> content, deltas |-> deltas,
     finish_reason |-> finish_reason]

\* the chunks the upstream sends in this model
Chunks ==
    { Chunk(FALSE, "", <<>>, "None") }
    \cup { Chunk(TRUE, "hi", <<>>, f) : f \in {"None", "stop"} }
    \cup { Chunk(TRUE, "", <<d>>, "None") : d \in TcDeltas }
    \cup { Chunk(TRUE, "", <<>>, f) : f \in FinishReasons \ {"None"} }
    \cup { Chunk(TRUE, "", <<TcDelta(0, 1, "list_directory", <<"{", "}">>)>>, f) :
             f \in {"tool_calls", "stop"} }

\* the position of the entry of index idx in the accumulation, 0 if it has none
AccPos(acc, idx) ==
    IF \E p \in 1..Len(acc) : acc[p].index = idx
    THEN CHOOSE p \in 1..Len(acc) : acc[p].index = idx
    ELSE 0

\* an entry of the accumulation; fragments is the list of the argument
\* fragments received for the entry, which the code does not keep
AccEntry(index) ==
    [index |-> index, id |-> 0, name |-> "", arguments |-> <<>>, fragments |-> <<>>]

\* the fragments of a delta are noted in the entry at position p
NoteFragment(acc, p, d) ==
    IF d.has_function THEN [acc EXCEPT ![p].fragments = Append(@, d.arguments)] ELSE acc

\* "=" where the code has "+=": the arguments are the last fragment
ApplyDelta_Overwrite(acc, d) ==
    LET acc1 == IF AccPos(acc, d.index) = 0 THEN Append(acc, AccEntry(d.index)) ELSE acc
        p == AccPos(acc1, d.index)
        e0 == acc1[p]
        e1 == IF d.id # 0 THEN [e0 EXCEPT !.id = d.id] ELSE e0
        e2 == IF d.has_function /\ d.name # "" THEN [e1 EXCEPT !.name = d.name] ELSE e1
        e3 == IF d.has_function /\ d.arguments # <<>>
              THEN [e2 EXCEPT !.arguments = d.arguments] ELSE e2
    IN  NoteFragment([acc1 EXCEPT ![p] = e3], p, d)

\* openai_compat.py:162-171: one tool-call delta is added to the accumulation
ApplyDelta(acc, d) ==
    LET acc1 == IF AccPos(acc, d.index) = 0 THEN Append(acc, AccEntry(d.index)) ELSE acc
        p == AccPos(acc1, d.index)
        e0 == acc1[p]
        e1 == IF d.id # 0 THEN [e0 EXCEPT !.id = d.id] ELSE e0
        e2 == IF d.has_function /\ d.name # "" THEN [e1 EXCEPT !.name = d.name] ELSE e1
        e3 == IF d.has_function /\ d.arguments # <<>>
              THEN [e2 EXCEPT !.arguments = e2.arguments \o d.arguments] ELSE e2
    IN  NoteFragment([acc1 EXCEPT ![p] = e3], p, d)

\* openai_compat.py:160-171: the deltas of a chunk are added in order
RECURSIVE ApplyDeltas(_, _)
ApplyDeltas(acc, deltas) ==
    IF deltas = <<>> THEN acc
    ELSE ApplyDeltas(ApplyDelta(acc, Head(deltas)), Tail(deltas))

\* a flush that leaves out the entries with an empty name for every finish_reason
FlushEvents_NamedOnly(acc, named_only) ==
    LET kept == SelectSeq(acc, LAMBDA tc : tc.name # "")
    IN  [i \in 1..Len(kept) |->
           Ev("tool_call", 0, 0, kept[i].id, kept[i].name, ParseToolInput(kept[i].arguments), <<>>)]

\* a flush of every entry for every finish_reason
FlushEvents_All(acc, named_only) ==
    [i \in 1..Len(acc) |->
       Ev("tool_call", 0, 0, acc[i].id, acc[i].name, ParseToolInput(acc[i].arguments), <<>>)]

\* openai_compat.py:174-182 and 188-197: the tool_call events of a flush of the
\* accumulation; with named_only, entries with an empty name are left out
FlushEvents(acc, named_only) ==
    LET kept == SelectSeq(acc, LAMBDA tc : ~named_only \/ tc.name # "")
    IN  [i \in 1..Len(kept) |->
           Ev("tool_call", 0, 0, kept[i].id, kept[i].name, ParseToolInput(kept[i].arguments), <<>>)]

\* one call of client.chat.completions.create(**kwargs): whether kwargs has
\* "tools", and what the call did
Request(tools, outcome) == [tools |-> tools, outcome |-> outcome]

\* openai_compat.py:107-111: the openai package is missing
OpenAIImportError ==
    /\ o_pc = "idle"
    /\ o_out' = Append(o_out, Ev("error", 0, 0, 0, "", NoInput, <<"openai package not installed">>))
    /\ o_pc' = "ended"
    /\ UNCHANGED << kwargs_tools, requests, tool_calls_acc, emitted_done, o_read, o_finish_seen >>
    /\ UNCHANGED << loopVars, anthropicVars, gateVars, runsVars, authVars,
                    projVars, botVars, chatVars >>

\* openai_compat.py:113-138: the request is built, with the tool specs if any
OpenAIBuild(tools) ==
    /\ o_pc = "idle"
    /\ kwargs_tools' = tools
    /\ tool_calls_acc' = <<>>
    /\ emitted_done' = FALSE
    /\ o_pc' = "create"
    /\ UNCHANGED << requests, o_read, o_out, o_finish_seen >>
    /\ UNCHANGED << loopVars, anthropicVars, gateVars, runsVars, authVars,
                    projVars, botVars, chatVars >>

\* openai_compat.py:141-148, 205-206: client.chat.completions.create is called;
\* it returns the stream, or raises with a message that says the model does
\* not support tools, or raises with another message
OpenAICreate(outcome) ==
    /\ o_pc = "create"
    /\ requests' = Append(requests, Request(kwargs_tools, outcome))
    /\ IF outcome = "stream" THEN
          /\ o_pc' = "streaming"
          /\ UNCHANGED << kwargs_tools, o_out >>
       ELSE IF outcome = "does not support tools" /\ kwargs_tools THEN
          /\ kwargs_tools' = FALSE
          /\ o_pc' = "retry"
          /\ o_out' = o_out
       ELSE
          /\ o_out' = Append(o_out, Ev("error", 0, 0, 0, "", NoInput, <<outcome>>))
          /\ o_pc' = "ended"
          /\ UNCHANGED kwargs_tools
    /\ UNCHANGED << tool_calls_acc, emitted_done, o_read, o_finish_seen >>
    /\ UNCHANGED << loopVars, anthropicVars, gateVars, runsVars, authVars,
                    projVars, botVars, chatVars >>

\* a retry that is itself retried when it is rejected for the same reason
OpenAIRetry_Again(outcome) ==
    /\ o_pc = "retry"
    /\ Len(requests) < 4
    /\ requests' = Append(requests, Request(kwargs_tools, outcome))
    /\ IF outcome = "stream" THEN
          /\ o_pc' = "streaming"
          /\ o_out' = o_out
       ELSE IF outcome = "does not support tools" THEN
          /\ o_pc' = "retry"
          /\ o_out' = o_out
       ELSE
          /\ o_out' = Append(o_out, Ev("error", 0, 0, 0, "", NoInput, <<outcome>>))
          /\ o_pc' = "ended"
    /\ UNCHANGED << kwargs_tools, tool_calls_acc, emitted_done, o_read, o_finish_seen >>
    /\ UNCHANGED << loopVars, anthropicVars, gateVars, runsVars, authVars,
                    projVars, botVars, chatVars >>

\* openai_compat.py:146, 205-206: the request is sent again without the tools
OpenAIRetry(outcome) ==
    /\ o_pc = "retry"
    /\ requests' = Append(requests, Request(kwargs_tools, outcome))
    /\ IF outcome = "stream" THEN
          /\ o_pc' = "streaming"
          /\ o_out' = o_out
       ELSE
          /\ o_out' = Append(o_out, Ev("error", 0, 0, 0, "", NoInput, <<outcome>>))
          /\ o_pc' = "ended"
    /\ UNCHANGED << kwargs_tools, tool_calls_acc, emitted_done, o_read, o_finish_seen >>
    /\ UNCHANGED << loopVars, anthropicVars, gateVars, runsVars, authVars,
                    projVars, botVars, chatVars >>

\* the content of a chunk is yielded only by a chunk with a finish_reason
OpenAIChunk_TextWithFinish(chunk) ==
    /\ o_pc = "streaming"
    /\ o_read < MaxUpstream
    /\ o_read' = o_read + 1
    /\ o_finish_seen' = (o_finish_seen \/ (chunk.has_choices /\ chunk.finish_reason # "None"))
    /\ IF ~chunk.has_choices THEN UNCHANGED << tool_calls_acc, emitted_done, o_out >>
       ELSE
          LET text == IF chunk.content # "" /\ chunk.finish_reason # "None"
                      THEN << Ev("text_delta", 0, 0, 0, "", NoInput, <<chunk.content>>) >>
                      ELSE <<>>
              acc == ApplyDeltas(tool_calls_acc, chunk.deltas)
          IN  IF chunk.finish_reason = "tool_calls" THEN
                 /\ o_out' = o_out \o text \o FlushEvents(acc, FALSE)
                                \o << Ev("done", 0, 0, 0, "", NoInput, <<"tool_calls">>) >>
                 /\ tool_calls_acc' = <<>>
                 /\ emitted_done' = TRUE
              ELSE IF chunk.finish_reason \in {"stop", "length", "end_turn"} THEN
                 /\ o_out' = o_out \o text \o FlushEvents(acc, TRUE)
                                \o << Ev("done", 0, 0, 0, "", NoInput, <<chunk.finish_reason>>) >>
                 /\ tool_calls_acc' = <<>>
                 /\ emitted_done' = TRUE
              ELSE
                 /\ o_out' = o_out \o text
                 /\ tool_calls_acc' = acc
                 /\ emitted_done' = emitted_done
    /\ UNCHANGED << o_pc, kwargs_tools, requests >>
    /\ UNCHANGED << loopVars, anthropicVars, gateVars, runsVars, authVars,
                    projVars, botVars, chatVars >>

\* openai_compat.py:150-200: the stream hands over its next chunk
OpenAIChunk(chunk) ==
    /\ o_pc = "streaming"
    /\ o_read < MaxUpstream
    /\ o_read' = o_read + 1
    /\ o_finish_seen' = (o_finish_seen \/ (chunk.has_choices /\ chunk.finish_reason # "None"))
    /\ IF ~chunk.has_choices THEN UNCHANGED << tool_calls_acc, emitted_done, o_out >>
       ELSE
          LET text == IF chunk.content # ""
                      THEN << Ev("text_delta", 0, 0, 0, "", NoInput, <<chunk.content>>) >>
                      ELSE <<>>
              acc == ApplyDeltas(tool_calls_acc, chunk.deltas)
          IN  IF chunk.finish_reason = "tool_calls" THEN
                 /\ o_out' = o_out \o text \o FlushEvents(acc, FALSE)
                                \o << Ev("done", 0, 0, 0, "", NoInput, <<"tool_calls">>) >>
                 /\ tool_calls_acc' = <<>>
                 /\ emitted_done' = TRUE
              ELSE IF chunk.finish_reason \in {"stop", "length", "end_turn"} THEN
                 /\ o_out' = o_out \o text \o FlushEvents(acc, TRUE)
                                \o << Ev("done", 0, 0, 0, "", NoInput, <<chunk.finish_reason>>) >>
                 /\ tool_calls_acc' = <<>>
                 /\ emitted_done' = TRUE
              ELSE
                 /\ o_out' = o_out \o text
                 /\ tool_calls_acc' = acc
                 /\ emitted_done' = emitted_done
    /\ UNCHANGED << o_pc, kwargs_tools, requests >>
    /\ UNCHANGED << loopVars, anthropicVars, gateVars, runsVars, authVars,
                    projVars, botVars, chatVars >>

\* openai_compat.py:205-206: reading the stream raises; the error event is
\* yielded and the generator ends
OpenAIRaises ==
    /\ o_pc = "streaming"
    /\ o_out' = Append(o_out, Ev("error", 0, 0, 0, "", NoInput, <<"e">>))
    /\ o_pc' = "ended"
    /\ UNCHANGED << kwargs_tools, requests, tool_calls_acc, emitted_done, o_read, o_finish_seen >>
    /\ UNCHANGED << loopVars, anthropicVars, gateVars, runsVars, authVars,
                    projVars, botVars, chatVars >>

\* the end of the stream without the synthetic done
OpenAIExhausted_NoSynthetic ==
    /\ o_pc = "streaming"
    /\ o_pc' = "ended"
    /\ UNCHANGED << kwargs_tools, requests, tool_calls_acc, emitted_done, o_read, o_out,
                    o_finish_seen >>
    /\ UNCHANGED << loopVars, anthropicVars, gateVars, runsVars, authVars,
                    projVars, botVars, chatVars >>

\* openai_compat.py:150, 202-203: the stream is exhausted
OpenAIExhausted ==
    /\ o_pc = "streaming"
    /\ o_out' = IF ~emitted_done
                THEN Append(o_out, Ev("done", 0, 0, 0, "", NoInput, <<"stop">>))
                ELSE o_out
    /\ o_pc' = "ended"
    /\ UNCHANGED << kwargs_tools, requests, tool_calls_acc, emitted_done, o_read, o_finish_seen >>
    /\ UNCHANGED << loopVars, anthropicVars, gateVars, runsVars, authVars,
                    projVars, botVars, chatVars >>

\* what client.chat.completions.create does
CreateOutcomes == {"stream", "does not support tools", "connection refused"}

InitOpenAI ==
    LoopIdle /\ AnthropicIdle /\ OpenAIIdle /\ GateIdle /\ OneRun /\ AuthIdle /\ TransportsIdle

NextOpenAI ==
    \/ OpenAIImportError
    \/ \E tools \in BOOLEAN : OpenAIBuild(tools)
    \/ \E outcome \in CreateOutcomes : OpenAICreate(outcome)
    \/ \E outcome \in CreateOutcomes : OpenAIRetry(outcome)
    \/ \E chunk \in Chunks : OpenAIChunk(chunk)
    \/ OpenAIRaises
    \/ OpenAIExhausted

SpecOpenAI == InitOpenAI /\ [][NextOpenAI]_vars

\* ------------------------------------------------------------------ one call of either adapter
InitAdapters ==
    LoopIdle /\ AnthropicIdle /\ OpenAIIdle /\ GateIdle /\ OneRun /\ AuthIdle /\ TransportsIdle

\* one stream_chat call, of the content-block adapter or of the delta-chunk one
NextAdapters ==
    \/ OpenAIIdle /\ NextAnthropic
    \/ AnthropicIdle /\ NextOpenAI

SpecAdapters == InitAdapters /\ [][NextAdapters]_vars

\* the concatenation of a sequence of fragments
RECURSIVE Flatten(_)
Flatten(fragments) ==
    IF fragments = <<>> THEN <<>> ELSE Head(fragments) \o Flatten(Tail(fragments))

\* the whole argument text parsed in one shot: the empty text and a text that
\* is not valid JSON give the empty object
OneShot(text) ==
    IF text = <<>> \/ ~JsonLoads(text).ok THEN [kind |-> "object", content |-> "absent"]
    ELSE JsonLoads(text).value

\* the events a step has added to the sequence out
Added(out, outNext) == SubSeq(outNext, Len(out) + 1, Len(outNext))

\* C16: in both adapters the input of an emitted tool_call event is the
\* one-shot parse of the concatenation of the fragments received for the
\* call, however the argument text was split; the empty text and a malformed
\* text give the empty object; and the step that parses yields no error event
\* and does not end the call.
C16_FragmentsParseAsWhole ==
    /\ [][ \A u \in UpstreamEvents :
              AnthropicEvent(u) =>
                  /\ a_pc' = "streaming"
                  /\ \A i \in 1..Len(Added(a_out, a_out')) : Added(a_out, a_out')[i].type # "error"
                  /\ u.type = "RawContentBlockStopEvent" /\ current_tool_name # "None" =>
                        /\ Len(Added(a_out, a_out')) = 1
                        /\ Last(a_out').type = "tool_call"
                        /\ Last(a_out').input = OneShot(Flatten(a_fragments)) ]_vars
    /\ [][ \A chunk \in Chunks :
              OpenAIChunk(chunk) =>
                  LET new == Added(o_out, o_out')
                      calls == SelectSeq(new, LAMBDA e : e.type = "tool_call")
                      acc == ApplyDeltas(tool_calls_acc, chunk.deltas)
                      flushed == IF ~chunk.has_choices THEN <<>>
                                 ELSE IF chunk.finish_reason = "tool_calls" THEN acc
                                 ELSE IF chunk.finish_reason \in {"stop", "length", "end_turn"}
                                      THEN SelectSeq(acc, LAMBDA tc : tc.name # "")
                                 ELSE <<>>
                  IN  /\ o_pc' = "streaming"
                      /\ \A i \in 1..Len(new) : new[i].type # "error"
                      /\ Len(calls) = Len(flushed)
                      /\ \A i \in 1..Len(calls) :
                            calls[i].input = OneShot(Flatten(flushed[i].fragments)) ]_vars

\* C16 witness: the content-block adapter has emitted a tool_call whose
\* argument text came in two fragments, "{" and "}", and its input is the
\* empty object the whole text parses to.
C16_Witness ==
    /\ a_fragments = << <<"{">>, <<"}">> >>
    /\ a_out # <<>>
    /\ Last(a_out).type = "tool_call"
    /\ Last(a_out).input = JsonLoads(<<"{", "}">>).value

\* the first request was rejected because the model does not support tools,
\* and it carried tool specs
RetryCase ==
    /\ requests # <<>>
    /\ requests[1] = [tools |-> TRUE, outcome |-> "does not support tools"]

\* C18: one call of the delta-chunk adapter sends at most two requests; a
\* second one is sent only after the first, which carried tool specs, was
\* rejected with "does not support tools", and it carries no tool specs; after
\* such a rejection the adapter has yielded nothing and sends the second
\* request; any other rejection of the first request, and any rejection of the
\* second, is the last request and the call has ended with one error event,
\* its only event, that carries the rejection's message.
C18_AtMostOneRetry ==
    /\ Len(requests) <= 2
    /\ Len(requests) = 2 => RetryCase /\ ~requests[2].tools
    /\ (Len(requests) = 1 /\ RetryCase) =>
          /\ o_pc = "retry" /\ o_out = <<>> /\ ~kwargs_tools
          /\ \A outcome \in CreateOutcomes : ENABLED OpenAIRetry(outcome)
    /\ o_pc = "retry" => Len(requests) = 1 /\ RetryCase
    /\ \A i \in 1..Len(requests) :
          (requests[i].outcome # "stream" /\ ~(i = 1 /\ RetryCase)) =>
              /\ i = Len(requests)
              /\ o_pc = "ended"
              /\ Len(o_out) = 1
              /\ o_out[1].type = "error" /\ o_out[1].val = <<requests[i].outcome>>

\* C18 witness: the first request was rejected because the model does not
\* support tools, and the second, without the tool specs, with the same
\* message; the call has ended with that error.
C18_Witness ==
    /\ Len(requests) = 2
    /\ requests[2] = [tools |-> FALSE, outcome |-> "does not support tools"]
    /\ o_pc = "ended"

\* the done events of the call
Dones == { i \in 1..Len(o_out) : o_out[i].type = "done" }

\* C19: while the upstream stream is read and no chunk has carried a finish
\* marker, no done event has been yielded and the stream can end; when it has
\* ended without raising and without such a chunk, the adapter has yielded
\* exactly one done event, with stop_reason "stop", as its last event, and the
\* call has ended.
C19_SyntheticDone ==
    /\ (o_pc = "streaming" /\ ~o_finish_seen) =>
          /\ Dones = {}
          /\ ~emitted_done
          /\ ENABLED OpenAIExhausted
    /\ ( /\ o_pc = "ended"
         /\ requests # <<>> /\ Last(requests).outcome = "stream"
         /\ ~o_finish_seen
         /\ \A i \in 1..Len(o_out) : o_out[i].type # "error" )
       => /\ Dones = {Len(o_out)}
          /\ Last(o_out).val = <<"stop">>

\* C19 witness: the stream gave two chunks, one with content and none with a
\* finish marker, and ended; the call has ended after a text_delta and the
\* synthetic done.
C19_Witness ==
    /\ o_pc = "ended"
    /\ ~o_finish_seen
    /\ o_read = 2
    /\ Len(o_out) = 2
    /\ o_out[1].type = "text_delta"
    /\ o_out[2].type = "done"

\* the tool_call event of an accumulated entry
CallOf(tc) ==
    [type |-> "tool_call", n |-> 0, k |-> 0, id |-> tc.id, name |-> tc.name,
     input |-> ParseToolInput(tc.arguments), val |-> <<>>]

\* the done event with stop reason r
DoneWith(r) ==
    [type |-> "done", n |-> 0, k |-> 0, id |-> 0, name |-> "",
     input |-> [kind |-> "none", content |-> "absent"], val |-> <<r>>]

\* the events a chunk's content gives before anything else
TextOf(chunk) ==
    IF chunk.content # ""
    THEN << [type |-> "text_delta", n |-> 0, k |-> 0, id |-> 0, name |-> "",
             input |-> [kind |-> "none", content |-> "absent"], val |-> <<chunk.content>>] >>
    ELSE <<>>

\* C27: the step that reads a chunk with finish_reason "tool_calls" yields,
\* after the chunk's text, one tool_call event for every accumulated entry,
\* named or not, in the order of the entries, then the done event with
\* stop_reason "tool_calls" as the last event of the step, and leaves the
\* accumulation empty; and the tool_call events of any later step are those of
\* the entries accumulated since, so that a flushed entry is not emitted again
C27_ToolCallsFlush ==
    [][ \A chunk \in Chunks :
           OpenAIChunk(chunk) /\ chunk.has_choices =>
              LET new == Added(o_out, o_out')
                  acc == ApplyDeltas(tool_calls_acc, chunk.deltas)
                  calls == SelectSeq(new, LAMBDA e : e.type = "tool_call")
              IN  /\ chunk.finish_reason = "tool_calls" =>
                        /\ new = TextOf(chunk) \o [p \in 1..Len(acc) |-> CallOf(acc[p])]
                                               \o << DoneWith("tool_calls") >>
                        /\ tool_calls_acc' = <<>>
                        /\ emitted_done'
                  /\ Len(calls) <= Len(acc)
                  /\ (tool_calls_acc = <<>> /\ chunk.deltas = <<>>) => calls = <<>> ]_vars

\* C27 witness: an entry without a name was flushed by a "tool_calls" chunk,
\* and a later finish chunk has yielded its done after that flush
C27_Witness ==
    /\ Len(o_out) = 3
    /\ o_out[1].type = "tool_call" /\ o_out[1].name = "" /\ o_out[1].id = 1
    /\ o_out[2] = DoneWith("tool_calls")
    /\ o_out[3].type = "done"
    /\ tool_calls_acc = <<>>

\* C28: the step that reads a chunk with finish_reason "stop" or "length"
\* yields, after the chunk's text, a tool_call event for exactly the
\* accumulated entries with a non-empty name, in their order, and none for an
\* entry without a name, then the done event carrying that finish_reason, and
\* leaves the accumulation empty
C28_StopFlush ==
    [][ \A chunk \in Chunks :
           (OpenAIChunk(chunk) /\ chunk.has_choices /\ chunk.finish_reason \in {"stop", "length"}) =>
              LET new == Added(o_out, o_out')
                  acc == ApplyDeltas(tool_calls_acc, chunk.deltas)
                  named == SelectSeq(acc, LAMBDA tc : tc.name # "")
              IN  /\ new = TextOf(chunk) \o [p \in 1..Len(named) |-> CallOf(named[p])]
                                         \o << DoneWith(chunk.finish_reason) >>
                  /\ \A i \in 1..Len(new) : new[i].type = "tool_call" => new[i].name # ""
                  /\ tool_calls_acc' = <<>>
                  /\ emitted_done' ]_vars

\* C28 witness: two chunks were read, a "length" chunk has flushed the named
\* entry of the first, and the accumulation is empty
C28_Witness ==
    /\ o_read = 2
    /\ Len(o_out) = 2
    /\ o_out[1].type = "tool_call" /\ o_out[1].name = "execute_command"
    /\ o_out[2] = DoneWith("length")
    /\ tool_calls_acc = <<>>

\* the entry of index idx in the accumulation acc
EntryOf(acc, idx) == acc[AccPos(acc, idx)]

\* the arguments buffer of every index is the concatenation, in arrival
\* order, of the fragments received for that index: a delta adds its
\* fragment to the buffer of its own index and leaves the other entries alone
BuffersConcatenate ==
    /\ [](\A p \in 1..Len(tool_calls_acc) :
             /\ tool_calls_acc[p].arguments = Flatten(tool_calls_acc[p].fragments)
             /\ \A q \in 1..Len(tool_calls_acc) :
                   tool_calls_acc[q].index = tool_calls_acc[p].index => q = p)
    /\ [][ \A chunk \in Chunks :
              (OpenAIChunk(chunk) /\ chunk.has_choices /\ chunk.finish_reason = "None"
                 /\ Len(chunk.deltas) = 1) =>
                 LET d == chunk.deltas[1] IN
                 /\ AccPos(tool_calls_acc', d.index) # 0
                 /\ EntryOf(tool_calls_acc', d.index).arguments =
                       (IF AccPos(tool_calls_acc, d.index) = 0 THEN <<>>
                        ELSE EntryOf(tool_calls_acc, d.index).arguments) \o d.arguments
                 /\ \A p \in 1..Len(tool_calls_acc) :
                       tool_calls_acc[p].index # d.index => tool_calls_acc'[p] = tool_calls_acc[p] ]_vars

\* C29: for each index the id and the name of the accumulating entry, once
\* set, are not changed by a later chunk for the same index; the arguments
\* buffer is the concatenation, in arrival order, of the fragments received
\* for the index; and fragments of different indices do not mix
C29_IdAndNameSetOnce ==
    /\ BuffersConcatenate
    /\ [][ \A p \in 1..Len(tool_calls_acc) :
              AccPos(tool_calls_acc', tool_calls_acc[p].index) # 0 =>
                 LET after == EntryOf(tool_calls_acc', tool_calls_acc[p].index) IN
                 /\ tool_calls_acc[p].id # 0 => after.id = tool_calls_acc[p].id
                 /\ tool_calls_acc[p].name # "" => after.name = tool_calls_acc[p].name ]_vars

\* the text_delta events among the events new
TextDeltas(new) == SelectSeq(new, LAMBDA e : e.type = "text_delta")

\* C30: in both adapters the step that reads an upstream event or chunk with
\* a non-empty text payload yields exactly one text_delta event, with that
\* text, before anything else the step yields and before the next event or
\* chunk is read; a step that reads something without a text payload, and a
\* step that reads nothing, yields no text_delta event; so the text_delta
\* events are the upstream text payloads in order, none held back
C30_TextPassesThrough ==
    /\ [][ \A u \in UpstreamEvents :
              AnthropicEvent(u) =>
                 LET new == Added(a_out, a_out') IN
                 IF u.type = "RawContentBlockDeltaEvent" /\ u.delta = "text_delta" /\ u.text # ""
                 THEN new = << [type |-> "text_delta", n |-> 0, k |-> 0, id |-> 0, name |-> "",
                                input |-> [kind |-> "none", content |-> "absent"],
                                val |-> <<u.text>>] >>
                 ELSE TextDeltas(new) = <<>> ]_vars
    /\ [][ \A chunk \in Chunks :
              OpenAIChunk(chunk) =>
                 LET new == Added(o_out, o_out') IN
                 IF chunk.has_choices /\ chunk.content # ""
                 THEN /\ TextDeltas(new) = TextOf(chunk)
                      /\ new[1] = TextOf(chunk)[1]
                 ELSE TextDeltas(new) = <<>> ]_vars
    /\ [][ /\ Len(a_out') >= Len(a_out) /\ Len(o_out') >= Len(o_out)
           /\ TextDeltas(Added(a_out, a_out')) # <<>> => a_read' = a_read + 1
           /\ TextDeltas(Added(o_out, o_out')) # <<>> => o_read' = o_read + 1 ]_vars

\* C30 witness: the delta-chunk adapter has read two chunks with content and
\* yielded a text_delta for each, and the response is not complete
C30_Witness ==
    /\ o_pc = "streaming" /\ ~o_finish_seen
    /\ o_read = 2
    /\ Len(o_out) = 2
    /\ o_out[1].type = "text_delta" /\ o_out[1].val = <<"hi">>
    /\ o_out[2].type = "text_delta" /\ o_out[2].val = <<"hi">>

\* the tool_call events among the events new
ToolCallEvents(new) == SelectSeq(new, LAMBDA e : e.type = "tool_call")

\* C31: the content-block adapter yields a tool_call event only in the step
\* that reads a block-stop while a tool-use buffer is open, exactly one, with
\* the id and the name the buffer was opened with, and that step closes the
\* buffer; a block-start of a tool-use block opens the buffer with its id and
\* name and yields nothing; a partial-JSON delta yields nothing and keeps the
\* id and the name; and a block-stop with no open buffer yields no tool_call
C31_ToolCallAtBlockStop ==
    /\ [][ \A u \in UpstreamEvents :
              AnthropicEvent(u) =>
                 LET new == Added(a_out, a_out') IN
                 /\ (u.type = "RawContentBlockStopEvent" /\ current_tool_name # "None") =>
                       /\ Len(new) = 1
                       /\ new[1].type = "tool_call"
                       /\ new[1].id = current_tool_id /\ new[1].name = current_tool_name
                       /\ current_tool_name' = "None" /\ current_tool_input_json' = <<>>
                 /\ ~(u.type = "RawContentBlockStopEvent" /\ current_tool_name # "None") =>
                       ToolCallEvents(new) = <<>>
                 /\ (u.type = "RawContentBlockStartEvent" /\ u.block = "tool_use") =>
                       /\ new = <<>>
                       /\ current_tool_id' = u.id /\ current_tool_name' = u.name
                       /\ current_tool_input_json' = <<>>
                 /\ (u.type = "RawContentBlockDeltaEvent" /\ u.delta = "input_json_delta") =>
                       /\ new = <<>>
                       /\ current_tool_id' = current_tool_id
                       /\ current_tool_name' = current_tool_name
                 /\ ~(u.type = "RawContentBlockStartEvent" /\ u.block = "tool_use")
                       /\ u.type # "RawContentBlockStopEvent" =>
                       /\ current_tool_id' = current_tool_id
                       /\ current_tool_name' = current_tool_name ]_vars
    /\ [][ ToolCallEvents(Added(a_out, a_out')) # <<>> => a_read' = a_read + 1 ]_vars

\* C31 witness: two tool-use blocks were started and stopped, and the adapter
\* has yielded their two tool_call events in block order
C31_Witness ==
    /\ a_read = 4
    /\ Len(a_out) = 2
    /\ a_out[1].type = "tool_call" /\ a_out[1].id = 1 /\ a_out[1].name = "list_directory"
    /\ a_out[2].type = "tool_call" /\ a_out[2].id = 2 /\ a_out[2].name = "execute_command"
    /\ current_tool_name = "None"

\* the entries of the accumulation acc for which an id or a name was received
Announced(acc) == SelectSeq(acc, LAMBDA tc : tc.id # 0 \/ tc.name # "")

\* C36: in the delta-chunk adapter no tool call whose id or name was received
\* is dropped: a step that yields a done event yields, before it, a tool_call
\* event for every such entry accumulated, and a call that has ended with a
\* done event has no such entry left in the accumulation
C36_NoToolCallDropped ==
    /\ [][ \A chunk \in Chunks :
              (OpenAIChunk(chunk) /\ chunk.has_choices
                 /\ \E i \in 1..Len(Added(o_out, o_out')) : Added(o_out, o_out')[i].type = "done") =>
                 LET due == Announced(ApplyDeltas(tool_calls_acc, chunk.deltas))
                     calls == ToolCallEvents(Added(o_out, o_out'))
                 IN  \A p \in 1..Len(due) :
                        \E i \in 1..Len(calls) :
                           calls[i].id = due[p].id /\ calls[i].name = due[p].name ]_vars
    /\ []((o_pc = "ended" /\ \E i \in 1..Len(o_out) : o_out[i].type = "done") =>
             Announced(tool_calls_acc) = <<>>)

\* What run_agent's dispatch (loop.py:105-119) relies on: an adapter yields
\* events of four types only.
AdapterEventTypes ==
    /\ \A i \in 1..Len(a_out) : a_out[i].type \in {"text_delta", "tool_call", "done", "error"}
    /\ \A i \in 1..Len(o_out) : o_out[i].type \in {"text_delta", "tool_call", "done", "error"}

\* C5: one call of the delta-chunk adapter yields exactly one terminal event:
\* it never yields a second done or error event, and a call that has ended has
\* yielded one.
C5_OneTerminalEvent ==
    /\ Cardinality(Terminal(o_out)) <= 1
    /\ o_pc = "ended" => Cardinality(Terminal(o_out)) = 1

\* What run_agent can get from the delta-chunk adapter (AdapterCanYield,
\* AdapterCanEnd): a tool_call event is followed by a tool_call or done event,
\* an error event is the last event, and a call that ended without an error
\* event has yielded a done event.
OpenAIStreamShape ==
    /\ \A i \in 1..Len(o_out) :
          /\ o_out[i].type = "tool_call" => i < Len(o_out) /\ o_out[i + 1].type \in {"tool_call", "done"}
          /\ o_out[i].type = "error" => i = Len(o_out) /\ o_pc = "ended"
    /\ (o_pc = "ended" /\ ~\E i \in 1..Len(o_out) : o_out[i].type = "error")
          => \E i \in 1..Len(o_out) : o_out[i].type = "done"


\* ------------------------------------------------------------------ the Telegram transport
\* the updates the bot receives in all
MaxUpdates == 4

\* the events one adapter call yields to a run the bot started
MaxBotStream == 2

\* the configuration the bot's runs read
BotConfig ==
    [filesystem_enabled |-> TRUE, terminal_enabled |-> TRUE, web_search_enabled |-> TRUE,
     terminal_require_confirmation |-> TRUE,
     require_confirmation_for |-> {"write_file", "delete_file"},
     max_iterations |-> 1]

\* the tool calls the upstream models ask for in the bot's runs
BotToolCalls ==
    { <<"list_directory", JObject("absent")>>, <<"execute_command", JObject("absent")>>,
      <<"execute_command", JNumber>> }

\* an update of the one chat: auth is what _is_authorized (bot.py:46-53) gives
\* for its user; a callback query carries "confirm:<action>:<tool_use_id>"
Update(type, auth, action, tool_use_id) ==
    [type |-> type, auth |-> auth, action |-> action, tool_use_id |-> tool_use_id]

\* an entry of the record of what the handlers did
Did(kind, conv, run) == [kind |-> kind, conv |-> conv, run |-> run]

LogOf(kind) == { i \in 1..Len(t_log) : t_log[i].kind = kind }

\* the runs of run_agent the bot has started
RunsStarted == Cardinality(LogOf("thinking"))

\* bot.py:226-244: the tool_use_ids a keyboard was sent for. The id of a tool
\* call is unique: it is the run it belongs to and its id in that run
KeyboardsSent == { <<t_log[i].run, t_log[i].conv>> : i \in LogOf("keyboard") }

\* the updates that can arrive: text messages and commands of a user, and the
\* press of a button of a keyboard that was sent
Updates ==
    { Update(t, a, "", <<0, 0>>) : t \in {"message", "start", "new"}, a \in BOOLEAN }
    \cup { Update("callback", TRUE, a, id) : a \in {"approve", "reject"}, id \in KeyboardsSent }

\* bot.py:187-191: the stored messages of the conversation, as run_agent gets them
StoredHistory(db, conv) ==
    LET of == SelectSeq(db, LAMBDA m : m.conv = conv /\ m.role \in {"user", "assistant"})
    IN  [i \in 1..Len(of) |-> Msg(of[i].role, "text", of[i].content, "", 0)]

\* a call of run_agent(messages, adapter): a new generator with frame f
StartRun(f) ==
    /\ cfg' = f.cfg
    /\ is_anthropic' = f.is_anthropic
    /\ messages' = f.messages
    /\ working_messages' = f.working_messages
    /\ iteration' = f.iteration
    /\ tool_calls' = f.tool_calls
    /\ assistant_text' = f.assistant_text
    /\ stop_reason' = f.stop_reason
    /\ tc_i' = f.tc_i
    /\ pc' = f.pc
    /\ events' = f.events
    /\ stream' = f.stream
    /\ ad_flush' = f.ad_flush
    /\ ad_done' = f.ad_done
    /\ adapter_calls' = f.adapter_calls
    /\ exec_log' = f.exec_log
    /\ hist_at_iter' = f.hist_at_iter
    /\ result' = f.result
    /\ term' = f.term

\* bot.py:327-356: the application is built and polls; no handler runs
InitBot ==
    /\ IsFrame(NewFrame(BotConfig, FALSE, <<>>))
    /\ AnthropicIdle /\ OpenAIIdle /\ GateIdle /\ OneRun /\ AuthIdle /\ ProjIdle /\ ChatIdle
    /\ update_queue = <<>>
    /\ arrived = 0
    /\ _chat_conv_map = 0
    /\ _pending_confirmations = {}
    /\ db_conversations = 0
    /\ db_messages = <<>>
    /\ t_pc = "idle"
    /\ t_update = Update("none", FALSE, "", <<0, 0>>)
    /\ t_conv_id = 0
    /\ t_full_text = <<>>
    /\ t_tool_use_id = <<0, 0>>
    /\ t_seen = 0
    /\ t_log = <<>>

\* bot.py:352: the updater puts an update of the chat in the update queue
Arrive(u) ==
    /\ arrived < MaxUpdates
    /\ arrived' = arrived + 1
    /\ update_queue' = Append(update_queue, u)
    /\ UNCHANGED << _chat_conv_map, _pending_confirmations, db_conversations, db_messages, t_pc,
                    t_update, t_conv_id, t_full_text, t_tool_use_id, t_seen, t_log >>
    /\ UNCHANGED << loopVars, anthropicVars, openaiVars, gateVars, runsVars, authVars, projVars,
                    chatVars >>

\* bot.py:341-346: the application is built without concurrent_updates and the
\* handlers are registered without block=False, so the application takes the
\* next update from the queue only when the handler of the one before has
\* returned
Dispatched(type) ==
    /\ t_pc = "idle"
    /\ update_queue # <<>>
    /\ Head(update_queue).type = type
    /\ update_queue' = Tail(update_queue)
    /\ t_update' = Head(update_queue)

\* the handler checks the map and finds no conversation, and awaits
\* create_conversation whatever the map holds
GetConv_AlwaysCreates ==
    /\ t_pc' = "creating"
    /\ t_conv_id' = t_conv_id

\* bot.py:56-59: _get_or_create_conv up to its await
GetConv ==
    IF _chat_conv_map # 0
    THEN /\ t_conv_id' = _chat_conv_map
         /\ t_pc' = "store"
    ELSE /\ t_conv_id' = t_conv_id
         /\ t_pc' = "creating"

\* bot.py:164-182: _handle_message is dispatched; it returns for a user who is
\* not authorized, and else asks for the conversation of the chat
HandleMessage ==
    /\ Dispatched("message")
    /\ IF Head(update_queue).auth
       THEN GetConv
       ELSE /\ t_pc' = "idle"
            /\ t_conv_id' = t_conv_id
    /\ UNCHANGED << arrived, _chat_conv_map, _pending_confirmations, db_conversations,
                    db_messages, t_full_text, t_tool_use_id, t_seen, t_log >>
    /\ UNCHANGED << loopVars, anthropicVars, openaiVars, gateVars, runsVars, authVars, projVars,
                    chatVars >>

\* bot.py:60-65: create_conversation returns and the chat is mapped to the new
\* conversation
CreateConversation ==
    /\ t_pc = "creating"
    /\ db_conversations' = db_conversations + 1
    /\ _chat_conv_map' = db_conversations + 1
    /\ t_conv_id' = db_conversations + 1
    /\ t_log' = Append(t_log, Did("created", db_conversations + 1, RunsStarted))
    /\ t_pc' = "store"
    /\ UNCHANGED << update_queue, arrived, _pending_confirmations, db_messages, t_update,
                    t_full_text, t_tool_use_id, t_seen >>
    /\ UNCHANGED << loopVars, anthropicVars, openaiVars, gateVars, runsVars, authVars, projVars,
                    chatVars >>

\* bot.py:185-209: the user message is stored, the history is loaded, the
\* adapter is made, "Thinking" is sent and run_agent is called
StoreAndRun(anth) ==
    /\ t_pc = "store"
    /\ LET stored == Append(db_messages,
                             [conv |-> t_conv_id, role |-> "user", content |-> <<"hi">>])
       IN  /\ db_messages' = stored
           /\ StartRun(NewFrame(BotConfig, anth, StoredHistory(stored, t_conv_id)))
    /\ t_log' = t_log \o << Did("stored_user", t_conv_id, RunsStarted + 1),
                            Did("thinking", t_conv_id, RunsStarted + 1) >>
    /\ t_full_text' = <<>>
    /\ t_seen' = 0
    /\ t_pc' = "consuming"
    /\ UNCHANGED << update_queue, arrived, _chat_conv_map, _pending_confirmations,
                    db_conversations, t_update, t_conv_id, t_tool_use_id >>
    /\ UNCHANGED << anthropicVars, openaiVars, gateVars, runsVars, authVars, projVars, chatVars >>

\* bot.py:209: the handler asks run_agent for its next event, and the generator
\* runs up to its next suspension
GeneratorStep ==
    /\ t_pc = "consuming"
    /\ t_seen = Len(events)
    /\ Next
    /\ Len(stream') <= MaxBotStream
    /\ \A i \in 1..Len(stream') :
          stream'[i].type = "tool_call" => << stream'[i].name, stream'[i].input >> \in BotToolCalls

\* bot.py:209-244 and 264: the body of the async for, for the event the
\* generator has yielded, up to the wait for the confirmation
TakeEvent ==
    /\ t_pc = "consuming"
    /\ t_seen < Len(events)
    /\ t_seen' = t_seen + 1
    /\ LET event == events[t_seen + 1] IN
       IF event.type = "text_delta"
       THEN /\ t_full_text' = StrAdd(t_full_text, event.val[1])
            /\ UNCHANGED << _pending_confirmations, t_tool_use_id, t_pc, t_log >>
       ELSE IF event.type = "tool_confirmation_needed"
       THEN /\ t_tool_use_id' = << RunsStarted, event.id >>
            /\ _pending_confirmations' =
                  { p \in _pending_confirmations : p.tool_use_id # << RunsStarted, event.id >> }
                  \cup { [tool_use_id |-> << RunsStarted, event.id >>, approved |-> FALSE,
                          is_set |-> FALSE] }
            /\ t_log' = Append(t_log, Did("keyboard", event.id, RunsStarted))
            /\ t_pc' = "waiting"
            /\ t_full_text' = t_full_text
       ELSE UNCHANGED << _pending_confirmations, t_tool_use_id, t_pc, t_log, t_full_text >>
    /\ UNCHANGED << update_queue, arrived, _chat_conv_map, db_conversations, db_messages,
                    t_update, t_conv_id >>
    /\ UNCHANGED << loopVars, anthropicVars, openaiVars, gateVars, runsVars, authVars, projVars,
                    chatVars >>

\* the wait ends and the handler goes on with the run whatever the entry holds
WaitEnds_NoCheck ==
    /\ t_pc = "waiting"
    /\ _pending_confirmations' =
          { p \in _pending_confirmations : p.tool_use_id # t_tool_use_id }
    /\ t_pc' = "consuming"
    /\ t_log' = Append(t_log, Did("resumed", t_tool_use_id[2], t_tool_use_id[1]))
    /\ UNCHANGED << update_queue, arrived, _chat_conv_map, db_conversations, db_messages,
                    t_update, t_conv_id, t_full_text, t_tool_use_id, t_seen >>
    /\ UNCHANGED << loopVars, anthropicVars, openaiVars, gateVars, runsVars, authVars, projVars,
                    chatVars >>

\* bot.py:246-264: wait_for returns because the event was set, or raises
\* TimeoutError after 30 seconds; the entry is popped, and the handler goes on
\* with the run if it holds approved, and else sends "Operation cancelled."
\* and returns
WaitEnds ==
    /\ t_pc = "waiting"
    /\ _pending_confirmations' =
          { p \in _pending_confirmations : p.tool_use_id # t_tool_use_id }
    /\ IF \E p \in _pending_confirmations : p.tool_use_id = t_tool_use_id /\ p.approved
       THEN /\ t_pc' = "consuming"
            /\ t_log' = Append(t_log, Did("resumed", t_tool_use_id[2], t_tool_use_id[1]))
       ELSE /\ t_pc' = "idle"
            /\ t_log' = Append(t_log, Did("cancelled", t_tool_use_id[2], t_tool_use_id[1]))
    /\ UNCHANGED << update_queue, arrived, _chat_conv_map, db_conversations, db_messages,
                    t_update, t_conv_id, t_full_text, t_tool_use_id, t_seen >>
    /\ UNCHANGED << loopVars, anthropicVars, openaiVars, gateVars, runsVars, authVars, projVars,
                    chatVars >>

\* bot.py:266-286: run_agent has returned; the assistant message is stored if
\* there is text, and the response is sent
RunReturned ==
    /\ t_pc = "consuming"
    /\ t_seen = Len(events)
    /\ pc = "returned"
    /\ IF t_full_text # <<>>
       THEN /\ db_messages' = Append(db_messages, [conv |-> t_conv_id, role |-> "assistant",
                                                   content |-> t_full_text])
            /\ t_log' = Append(t_log, Did("stored_assistant", t_conv_id, RunsStarted))
       ELSE UNCHANGED << db_messages, t_log >>
    /\ t_pc' = "idle"
    /\ UNCHANGED << update_queue, arrived, _chat_conv_map, _pending_confirmations,
                    db_conversations, t_update, t_conv_id, t_full_text, t_tool_use_id, t_seen >>
    /\ UNCHANGED << loopVars, anthropicVars, openaiVars, gateVars, runsVars, authVars, projVars,
                    chatVars >>

\* bot.py:288-291: run_agent has raised; the error is sent
RunRaised ==
    /\ t_pc = "consuming"
    /\ t_seen = Len(events)
    /\ pc = "raised"
    /\ t_pc' = "idle"
    /\ t_log' = Append(t_log, Did("error", t_conv_id, RunsStarted))
    /\ UNCHANGED << update_queue, arrived, _chat_conv_map, _pending_confirmations,
                    db_conversations, db_messages, t_update, t_conv_id, t_full_text,
                    t_tool_use_id, t_seen >>
    /\ UNCHANGED << loopVars, anthropicVars, openaiVars, gateVars, runsVars, authVars, projVars,
                    chatVars >>

\* bot.py:126-143 and 146-161: the body of both command handlers
Reset(command) ==
    /\ Dispatched(command)
    /\ t_pc' = "idle"
    /\ IF Head(update_queue).auth
       THEN /\ _chat_conv_map' = 0
            /\ t_log' = Append(t_log, Did(command, 0, RunsStarted))
       ELSE UNCHANGED << _chat_conv_map, t_log >>
    /\ UNCHANGED << arrived, _pending_confirmations, db_conversations, db_messages, t_conv_id,
                    t_full_text, t_tool_use_id, t_seen >>
    /\ UNCHANGED << loopVars, anthropicVars, openaiVars, gateVars, runsVars, authVars, projVars,
                    chatVars >>

\* bot.py:126-143
HandleStart == Reset("start")

\* bot.py:146-161
HandleNew == Reset("new")

\* bot.py:294-324: _handle_callback is dispatched
HandleCallback ==
    /\ Dispatched("callback")
    /\ t_pc' = "idle"
    /\ LET u == Head(update_queue) IN
       _pending_confirmations' =
          { IF p.tool_use_id = u.tool_use_id
            THEN [p EXCEPT !.approved = (u.action = "approve"), !.is_set = TRUE]
            ELSE p : p \in _pending_confirmations }
    /\ UNCHANGED << arrived, _chat_conv_map, db_conversations, db_messages, t_conv_id,
                    t_full_text, t_tool_use_id, t_seen, t_log >>
    /\ UNCHANGED << loopVars, anthropicVars, openaiVars, gateVars, runsVars, authVars, projVars,
                    chatVars >>

NextBot ==
    \/ \E u \in Updates : Arrive(u)
    \/ HandleMessage
    \/ CreateConversation
    \/ \E anth \in BOOLEAN : StoreAndRun(anth)
    \/ GeneratorStep
    \/ TakeEvent
    \/ WaitEnds
    \/ RunReturned
    \/ RunRaised
    \/ HandleStart
    \/ HandleNew
    \/ HandleCallback

SpecBot == InitBot /\ [][NextBot]_vars

\* the commands of an authorized user that were handled
Resets == LogOf("start") \cup LogOf("new")

Approved ==
    \E p \in _pending_confirmations : p.tool_use_id = t_tool_use_id /\ p.approved

\* the handler has cancelled run r
Cancelled(r) == \E i \in LogOf("cancelled") : t_log[i].run = r

\* the tool calls of the run whose tool was started
Started == { tool_calls[exec_log[i].k] : i \in 1..Len(exec_log) }

\* C37: a wait for a confirmation that ends without approval ends with the
\* return of the handler and stores nothing; a tool call that requires
\* confirmation is started only after the handler went on with the run for
\* it; and after the handler has cancelled a run, the run is suspended at its
\* tool_confirmation_needed event, which is its last event, the tool of that
\* call was not started, and no assistant message is stored for that run
C37_OnlyApprovedToolsRun ==
    /\ [][ (t_pc = "waiting" /\ ~Approved /\ t_pc' # "waiting") =>
              (t_pc' = "idle" /\ db_messages' = db_messages /\ UNCHANGED loopVars) ]_vars
    /\ [](\A tc \in Started :
             requires_confirmation(cfg, tc.name, tc.input) =>
                \E i \in LogOf("resumed") : t_log[i].run = RunsStarted /\ t_log[i].conv = tc.id)
    /\ [](Cancelled(RunsStarted) =>
             /\ pc = "y_confirm"
             /\ Len(events) = t_seen
             /\ Last(events).type = "tool_confirmation_needed"
             /\ tool_calls[tc_i] \notin Started
             /\ ~\E i \in 1..Len(events) : events[i].type = "tool_result" /\ events[i].k = tc_i)
    /\ [](\A i \in LogOf("stored_assistant") : ~Cancelled(t_log[i].run))

\* C37 witness: the user pressed Cancel during the wait; the wait has ended,
\* the handler has returned with text it had received and not stored, and the
\* run stays suspended at the confirmation of a tool that was not started
C37_Witness ==
    /\ Cancelled(RunsStarted)
    /\ t_pc = "idle"
    /\ t_full_text # <<>>
    /\ pc = "y_confirm"
    /\ exec_log = <<>>
    /\ ~\E i \in 1..Len(db_messages) : db_messages[i].role = "assistant"
    /\ \E i \in 1..Len(update_queue) :
          update_queue[i].type = "callback" /\ update_queue[i].action = "reject"

\* the user has pressed Execute for the confirmation the handler waits for
ExecutePressed ==
    \E i \in 1..Len(update_queue) :
       /\ update_queue[i].type = "callback"
       /\ update_queue[i].action = "approve"
       /\ update_queue[i].tool_use_id = t_tool_use_id

\* a callback is handled whose tool_use_id is not pending
StaleCallback ==
    /\ t_pc = "idle"
    /\ update_queue # <<>>
    /\ Head(update_queue).type = "callback"
    /\ ~\E p \in _pending_confirmations : p.tool_use_id = Head(update_queue).tool_use_id

\* what _handle_callback leaves alone when the tool_use_id is not pending
StaleCallbackChangesNothing ==
    [][ StaleCallback =>
           UNCHANGED << loopVars, _chat_conv_map, _pending_confirmations, db_conversations,
                        db_messages, t_conv_id, t_full_text, t_tool_use_id, t_seen, t_log >> ]_vars

\* C38: when the user has pressed Execute for the confirmation the handler
\* waits for, the wait ends with the handler going on with the run, approved,
\* and not with its return; and a callback whose tool_use_id is not pending
\* changes no state
C38_ExecuteWakesTheWaiter ==
    /\ [][ (t_pc = "waiting" /\ ExecutePressed /\ t_pc' # "waiting") =>
              (Approved /\ t_pc' = "consuming") ]_vars
    /\ StaleCallbackChangesNothing

\* the press of Execute during the wait is handled after the handler has
\* cancelled the run, when the tool_use_id is no longer pending
ExecuteHandledAfterCancel ==
    /\ Cancelled(RunsStarted)
    /\ t_pc = "idle"
    /\ t_update.type = "callback" /\ t_update.action = "approve"
    /\ t_update.tool_use_id = t_tool_use_id
    /\ pc = "y_confirm"

\* ------------------------------------------------------------------ the HTTP transport: send_message
\* the events one adapter call yields to the run of a chat request
MaxChatStream == 2

\* the configurations the run of a chat request reads
ChatConfigs ==
    { c \in Configs : c.terminal_enabled /\ c.terminal_require_confirmation }

\* the tool calls the upstream models ask for in the run of a chat request
ChatToolCalls == { <<"list_directory", JObject("absent")>>, <<"execute_command", JNumber>> }

\* an entry of the record of a request: a message add_message stored, a data
\* frame that carries an agent event, the title_updated frame, or the [DONE]
\* frame
Sent(kind, role, event) == [kind |-> kind, role |-> role, event |-> event]
NoEvent == Ev("none", 0, 0, 0, "", NoInput, <<>>)

\* the messages stored for the conversation before the request: none, or an
\* earlier exchange
StoredBefore ==
    { <<>>,
      << [conv |-> 1, role |-> "user", content |-> <<"hi">>],
         [conv |-> 1, role |-> "assistant", content |-> <<"hi">>] >> }

\* chat.py:99-100: a request POST /conversations/1/messages has arrived; the
\* conversation exists or not
InitChat ==
    /\ AnthropicIdle /\ OpenAIIdle /\ GateIdle /\ OneRun /\ AuthIdle /\ ProjIdle
    /\ \E c \in ChatConfigs : IsFrame(NewFrame(c, FALSE, <<>>))
    /\ update_queue = <<>>
    /\ arrived = 0
    /\ _chat_conv_map = 0
    /\ _pending_confirmations = {}
    /\ db_conversations \in {0, 1}
    /\ db_messages \in StoredBefore
    /\ db_conversations = 0 => db_messages = <<>>
    /\ t_pc = "off"
    /\ t_update = Update("none", FALSE, "", <<0, 0>>)
    /\ t_conv_id = 0
    /\ t_full_text = <<>>
    /\ t_tool_use_id = <<0, 0>>
    /\ t_seen = 0
    /\ t_log = <<>>
    /\ c_pc = "called"
    /\ c_seen = 0
    /\ is_first_message = FALSE
    /\ c_full_text = <<>>
    /\ title_generated = FALSE
    /\ c_trace = <<>>

\* chat.py:101-120 and 165: send_message, up to the return of the streaming
\* response; the first thing event_stream does is to call run_agent
SendMessage(anth) ==
    /\ c_pc = "called"
    /\ IF db_conversations = 0
       THEN /\ c_pc' = "not_found"
            /\ UNCHANGED << loopVars, db_messages, is_first_message, c_trace >>
       ELSE LET stored == Append(db_messages,
                                 [conv |-> 1, role |-> "user", content |-> <<"hi">>])
            IN  /\ is_first_message' =
                      (\A i \in 1..Len(db_messages) : db_messages[i].role # "user")
                /\ db_messages' = stored
                /\ c_trace' = << Sent("stored", "user", NoEvent) >>
                /\ StartRun(NewFrame(cfg, anth, StoredHistory(stored, 1)))
                /\ c_pc' = "streaming"
    /\ UNCHANGED << c_seen, c_full_text, title_generated >>
    /\ UNCHANGED << update_queue, arrived, _chat_conv_map, _pending_confirmations,
                    db_conversations, t_pc, t_update, t_conv_id, t_full_text, t_tool_use_id,
                    t_seen, t_log >>
    /\ UNCHANGED << anthropicVars, openaiVars, gateVars, runsVars, authVars, projVars >>

\* chat.py:127: event_stream asks run_agent for its next event, and the
\* generator runs up to its next suspension
ChatGeneratorStep ==
    /\ c_pc = "streaming"
    /\ c_seen = Len(events)
    /\ Next
    /\ Len(stream') <= MaxChatStream
    /\ \A i \in 1..Len(stream') :
          stream'[i].type = "tool_call" => << stream'[i].name, stream'[i].input >> \in ChatToolCalls

\* chat.py:128-137: the body of the async for, for the event the generator has
\* yielded: its frame is sent, and text is added to full_text; at the first
\* done event of the first message of a conversation the title is asked for
SendFrame ==
    /\ c_pc = "streaming"
    /\ c_seen < Len(events)
    /\ c_seen' = c_seen + 1
    /\ LET event == events[c_seen + 1] IN
       /\ c_trace' = Append(c_trace, Sent("frame", "", event))
       /\ c_full_text' = IF event.type = "text_delta" THEN StrAdd(c_full_text, event.val[1])
                         ELSE c_full_text
       /\ IF event.type = "done" /\ is_first_message /\ ~title_generated
          THEN /\ title_generated' = TRUE
               /\ c_pc' = "title"
          ELSE UNCHANGED << title_generated, c_pc >>
    /\ UNCHANGED is_first_message
    /\ UNCHANGED << loopVars, anthropicVars, openaiVars, gateVars, runsVars, authVars, projVars,
                    botVars >>

\* chat.py:137-152: the title adapter's stream ends with a title, and the
\* title is stored and its frame is sent; or it ends with none, or raises
GenerateTitle(titled) ==
    /\ c_pc = "title"
    /\ c_trace' = IF titled THEN Append(c_trace, Sent("title_updated", "", NoEvent)) ELSE c_trace
    /\ c_pc' = "streaming"
    /\ UNCHANGED << c_seen, is_first_message, c_full_text, title_generated >>
    /\ UNCHANGED << loopVars, anthropicVars, openaiVars, gateVars, runsVars, authVars, projVars,
                    botVars >>

\* run_agent has returned; the assistant message is stored whatever the text
\* is, and [DONE] is sent
EventStreamEnds_AlwaysStores ==
    /\ c_pc = "streaming"
    /\ c_seen = Len(events)
    /\ pc = "returned"
    /\ db_messages' = Append(db_messages, [conv |-> 1, role |-> "assistant",
                                           content |-> c_full_text])
    /\ c_trace' = c_trace \o << Sent("stored", "assistant", NoEvent), Sent("DONE", "", NoEvent) >>
    /\ c_pc' = "closed"
    /\ UNCHANGED << c_seen, is_first_message, c_full_text, title_generated >>
    /\ UNCHANGED << update_queue, arrived, _chat_conv_map, _pending_confirmations,
                    db_conversations, t_pc, t_update, t_conv_id, t_full_text, t_tool_use_id,
                    t_seen, t_log >>
    /\ UNCHANGED << loopVars, anthropicVars, openaiVars, gateVars, runsVars, authVars, projVars >>

\* chat.py:154-163: run_agent has returned; the assistant message is stored if
\* there is text, and [DONE] is sent
EventStreamEnds ==
    /\ c_pc = "streaming"
    /\ c_seen = Len(events)
    /\ pc = "returned"
    /\ IF c_full_text # <<>>
       THEN /\ db_messages' = Append(db_messages, [conv |-> 1, role |-> "assistant",
                                                   content |-> c_full_text])
            /\ c_trace' = c_trace \o << Sent("stored", "assistant", NoEvent),
                                        Sent("DONE", "", NoEvent) >>
       ELSE /\ db_messages' = db_messages
            /\ c_trace' = Append(c_trace, Sent("DONE", "", NoEvent))
    /\ c_pc' = "closed"
    /\ UNCHANGED << c_seen, is_first_message, c_full_text, title_generated >>
    /\ UNCHANGED << update_queue, arrived, _chat_conv_map, _pending_confirmations,
                    db_conversations, t_pc, t_update, t_conv_id, t_full_text, t_tool_use_id,
                    t_seen, t_log >>
    /\ UNCHANGED << loopVars, anthropicVars, openaiVars, gateVars, runsVars, authVars, projVars >>

\* chat.py:127: run_agent has raised, and the exception leaves event_stream
EventStreamRaises ==
    /\ c_pc = "streaming"
    /\ c_seen = Len(events)
    /\ pc = "raised"
    /\ c_pc' = "failed"
    /\ UNCHANGED << c_seen, is_first_message, c_full_text, title_generated, c_trace >>
    /\ UNCHANGED << loopVars, anthropicVars, openaiVars, gateVars, runsVars, authVars, projVars,
                    botVars >>

NextChat ==
    \/ \E anth \in BOOLEAN : SendMessage(anth)
    \/ ChatGeneratorStep
    \/ SendFrame
    \/ \E titled \in BOOLEAN : GenerateTitle(titled)
    \/ EventStreamEnds
    \/ EventStreamRaises

SpecChat == InitChat /\ [][NextChat]_vars

\* the places of the entries of a kind in the record of the request
SentOf(kind) == { i \in 1..Len(c_trace) : c_trace[i].kind = kind }

\* the agent events the data frames sent so far carry, in the order of the frames
FramedEvents ==
    LET fr == SelectSeq(c_trace, LAMBDA x : x.kind = "frame")
    IN  [i \in 1..Len(fr) |-> fr[i].event]

\* the text deltas of all events of the run, concatenated
AllText ==
    LET F[i \in 0..Len(events)] ==
            IF i = 0 THEN <<>>
            ELSE IF events[i].type = "text_delta" THEN F[i - 1] \o events[i].val
                 ELSE F[i - 1]
    IN F[Len(events)]

\* the assistant messages stored in the request
StoredAssistant == { i \in SentOf("stored") : c_trace[i].role = "assistant" }

\* C39: of a chat request the user message is stored before any frame is
\* sent, and the frames that carry agent events carry the events run_agent
\* has yielded, one frame an event, in the order of the events; when run_agent
\* has returned (a normal end, an adapter error or the ceiling error) and the
\* stream is closed, every event has its frame, there is exactly one [DONE]
\* frame and it is the last frame, and the assistant message is stored at
\* most once, after the frame of the last event and right before [DONE], and
\* it is stored if and only if the text deltas of all iterations together are
\* not empty; it holds that text
C39_FramesAndPersistence ==
    /\ c_trace # <<>> => c_trace[1] = Sent("stored", "user", NoEvent)
    /\ \A i \in SentOf("stored") : c_trace[i].role = "user" => i = 1
    /\ FramedEvents = SubSeq(events, 1, c_seen)
    /\ c_pc \in {"called", "streaming", "title", "failed", "not_found"} => SentOf("DONE") = {}
    /\ c_pc = "closed" =>
          /\ pc = "returned"
          /\ FramedEvents = events
          /\ SentOf("DONE") = { Len(c_trace) }
          /\ Cardinality(StoredAssistant) <= 1
          /\ \A i \in StoredAssistant :
                /\ i = Len(c_trace) - 1
                /\ \A f \in SentOf("frame") : f < i
                /\ Last(db_messages) = [conv |-> 1, role |-> "assistant", content |-> AllText]
          /\ (StoredAssistant # {}) <=> (AllText # <<>>)
    /\ (pc = "returned" /\ c_seen = Len(events) /\ c_pc = "streaming") => ENABLED EventStreamEnds

\* C39 witness: the first request of a conversation has ended after two
\* iterations, a tool call in the first and text in the second: the title
\* frame was sent after the frame of the done event, the assistant message
\* holds the text, and [DONE] is the last frame
C39_Witness ==
    /\ c_pc = "closed"
    /\ is_first_message
    /\ SentOf("title_updated") # {}
    /\ Cardinality(EventsOfType("iteration")) = 2
    /\ EventsOfType("tool_result") # {}
    /\ AllText = <<"hi">>
    /\ StoredAssistant = { Len(c_trace) - 1 }
    /\ Last(c_trace).kind = "DONE"

====
